---------------------------- MODULE Spec2Model ----------------------------
(***************************************************************************)
(* ts-morph-selector: the SQL-like query parser (QueryParser), the query   *)
(* executor (QueryExecutor) and the facade (TsMorphSelector).              *)
(*                                                                         *)
(* Strings are sequences of one-character strings, so that the regular     *)
(* expressions of the parser and of LIKE act on characters as they do in   *)
(* the code.                                                               *)
(***************************************************************************)
EXTENDS Integers, Sequences, FiniteSets, TLC

VARIABLES project, options, op, input, output, log

vars == <<project, options, op, input, output, log>>

(***************************************************************************)
(* Characters                                                              *)
(***************************************************************************)
UpperChars == <<"A","B","C","D","E","F","G","H","I","J","K","L","M","N","O","P","Q","R","S","T","U","V","W","X","Y","Z">>

LowerChars == <<"a","b","c","d","e","f","g","h","i","j","k","l","m","n","o","p","q","r","s","t","u","v","w","x","y","z">>

DigitChars == <<"0","1","2","3","4","5","6","7","8","9">>

Range(s) == {s[i] : i \in 1..Len(s)}

\* String.prototype.toUpperCase on one ASCII character: the canonical form the
\* regular-expression flag i compares.
ToUpper(c) ==
    IF \E i \in 1..Len(LowerChars) : LowerChars[i] = c
    THEN UpperChars[CHOOSE i \in 1..Len(LowerChars) : LowerChars[i] = c]
    ELSE c

\* The regular-expression class \w.
IsWordChar(c) == c \in Range(UpperChars) \cup Range(LowerChars) \cup Range(DigitChars) \cup {"_"}

\* The regular-expression class \s (the members the model's inputs use).
IsSpace(c) == c \in {" ", "\t", "\n", "\r"}

\* The characters the regular-expression atom . does not match (no s flag).
LineTerminators == {"\n", "\r"}

\* JavaScript null (getPropertyValue's "no value") and undefined.
Null == <<"null">>

Undefined == <<"undefined">>

RECURSIVE Flatten(_)
\* Array.prototype.join('') of a sequence of strings.
Flatten(ss) == IF ss = <<>> THEN <<>> ELSE Head(ss) \o Flatten(Tail(ss))

(***************************************************************************)
(* QueryOperator                                                           *)
(***************************************************************************)
EQUALS == <<"=">>

NOT_EQUALS == <<"!","=">>

LIKE == <<"L","I","K","E">>

NOT_LIKE == <<"N","O","T"," ","L","I","K","E">>

IN_OP == <<"I","N">>

NOT_IN == <<"N","O","T"," ","I","N">>

QueryOperator == {EQUALS, NOT_EQUALS, LIKE, NOT_LIKE, IN_OP, NOT_IN}

(***************************************************************************)
(* QueryExecutor.matchesPattern                                            *)
(***************************************************************************)
\* The characters of the class [.*+?^${}()|[\]\\].
RegexSpecialChars == {".", "*", "+", "?", "^", "$", "{", "}", "(", ")", "|", "[", "]", "\\"}

\* pattern.replace(/[.*+?^${}()|[\]\\]/g, '\\$&')
EscapeRegex(pattern) ==
    Flatten([i \in 1..Len(pattern) |->
        IF pattern[i] \in RegexSpecialChars THEN <<"\\", pattern[i]>> ELSE <<pattern[i]>>])

\* s.replace(/c/g, repl) for a one-character c.
ReplaceChar(s, c, repl) ==
    Flatten([i \in 1..Len(s) |-> IF s[i] = c THEN repl ELSE <<s[i]>>])

\* The source of the regular expression matchesPattern builds, without ^ and $.
RegexPattern(pattern) ==
    ReplaceChar(ReplaceChar(EscapeRegex(pattern), "%", <<".","*">>), "_", <<".">>)

RECURSIVE RegexTest(_, _, _, _)
\* new RegExp('^' + re + '$', 'i').test(value), from position i of re and
\* position j of value.  re is an output of RegexPattern: \x is the literal x,
\* .* any run of characters other than line terminators, . one such character,
\* anything else a literal; literals compare case-insensitively.
RegexTest(re, value, i, j) ==
    IF i > Len(re) THEN j > Len(value)
    ELSE IF re[i] = "\\" /\ i < Len(re)
         THEN /\ j <= Len(value)
              /\ ToUpper(value[j]) = ToUpper(re[i + 1])
              /\ RegexTest(re, value, i + 2, j + 1)
    ELSE IF re[i] = "." /\ i < Len(re) /\ re[i + 1] = "*"
         THEN \/ RegexTest(re, value, i + 2, j)
              \/ /\ j <= Len(value)
                 /\ value[j] \notin LineTerminators
                 /\ RegexTest(re, value, i, j + 1)
    ELSE IF re[i] = "."
         THEN /\ j <= Len(value)
              /\ value[j] \notin LineTerminators
              /\ RegexTest(re, value, i + 1, j + 1)
    ELSE /\ j <= Len(value)
         /\ ToUpper(value[j]) = ToUpper(re[i])
         /\ RegexTest(re, value, i + 1, j + 1)

matchesPattern(value, pattern) == RegexTest(RegexPattern(pattern), value, 1, 1)

RECURSIVE SqlLike(_, _, _, _)
\* The LIKE of the documentation: % is zero or more of any character, _ exactly
\* one of any character, every other character itself (case-insensitively), and
\* the whole value must match.
SqlLike(pattern, value, i, j) ==
    IF i > Len(pattern) THEN j > Len(value)
    ELSE IF pattern[i] = "%"
         THEN \/ SqlLike(pattern, value, i + 1, j)
              \/ j <= Len(value) /\ SqlLike(pattern, value, i, j + 1)
    ELSE IF pattern[i] = "_"
         THEN j <= Len(value) /\ SqlLike(pattern, value, i + 1, j + 1)
    ELSE /\ j <= Len(value)
         /\ ToUpper(value[j]) = ToUpper(pattern[i])
         /\ SqlLike(pattern, value, i + 1, j + 1)

(***************************************************************************)
(* The ts-morph Project the executor reads.  A source file is a record     *)
(* with its path and the sequence of its descendant nodes in document      *)
(* (pre-)order; parent is the index of the parent node in that sequence,   *)
(* 0 for the source file itself.  A node is identified by                  *)
(* <<file index, node index>>, the source file node by <<file index, 0>>.  *)
(*   named  - the node has a getName method (name = Undefined: it returns  *)
(*            undefined, as for an anonymous default export)               *)
(*   mods   - the texts of getModifiers(), Null when the node has no       *)
(*            getModifiers method                                          *)
(*   refs   - what findReferences() reports: a sequence of referenced      *)
(*            symbols, each the sequence of the nodes of its references;   *)
(*            Null when the node has no findReferences method              *)
(*   refsAsNodes - the nodes findReferencesAsNodes() reports, for a node   *)
(*            that has that method and no findReferences; ts-morph gives   *)
(*            both methods together, so it is Null on every node here      *)
(***************************************************************************)
K_SourceFile == <<"S","o","u","r","c","e","F","i","l","e">>

K_Interface == <<"I","n","t","e","r","f","a","c","e","D","e","c","l","a","r","a","t","i","o","n">>

K_Class == <<"C","l","a","s","s","D","e","c","l","a","r","a","t","i","o","n">>

K_Function == <<"F","u","n","c","t","i","o","n","D","e","c","l","a","r","a","t","i","o","n">>

K_Method == <<"M","e","t","h","o","d","D","e","c","l","a","r","a","t","i","o","n">>

K_Property == <<"P","r","o","p","e","r","t","y","D","e","c","l","a","r","a","t","i","o","n">>

K_PropertySignature == <<"P","r","o","p","e","r","t","y","S","i","g","n","a","t","u","r","e">>

K_Variable == <<"V","a","r","i","a","b","l","e","D","e","c","l","a","r","a","t","i","o","n">>

K_VariableStatement == <<"V","a","r","i","a","b","l","e","S","t","a","t","e","m","e","n","t">>

K_VariableList == <<"V","a","r","i","a","b","l","e","D","e","c","l","a","r","a","t","i","o","n","L","i","s","t">>

K_TypeAlias == <<"T","y","p","e","A","l","i","a","s","D","e","c","l","a","r","a","t","i","o","n">>

K_Enum == <<"E","n","u","m","D","e","c","l","a","r","a","t","i","o","n">>

K_Import == <<"I","m","p","o","r","t","D","e","c","l","a","r","a","t","i","o","n">>

K_Export == <<"E","x","p","o","r","t","D","e","c","l","a","r","a","t","i","o","n">>

K_Identifier == <<"I","d","e","n","t","i","f","i","e","r">>

K_ExportKeyword == <<"E","x","p","o","r","t","K","e","y","w","o","r","d">>

K_Star == <<"*">>

\* The members of the type NodeType, and SourceFile, which execute also accepts.
NodeTypes ==
    {K_Interface, K_Class, K_Function, K_Method, K_Property, K_Variable,
     K_TypeAlias, K_Enum, K_Import, K_Export, K_Star}

\* refs is what findReferences() reports for the node: the referenced symbols,
\* each the sequence of its references (the nodes getNode() gives), or Null for
\* a node without findReferences.
Node(kind, parent, named, name, mods, text, refs) ==
    [kind |-> kind, parent |-> parent, named |-> named, name |-> name,
     mods |-> mods, text |-> text, refs |-> refs, refsAsNodes |-> Null]

FileA ==
    [path |-> <<"/","s","r","c","/","m","o","d","e","l","s","/","a",".","t","s">>, baseName |-> <<"a",".","t","s">>, extension |-> <<".","t","s">>,
     text |-> <<"e","x","p","o","r","t"," ","i","n","t","e","r","f","a","c","e"," ","U","s","e","r"," ","{","\n"," "," ","i","d",";","\n","}","\n","c","l","a","s","s"," ","R","e","p","o"," ","{","}","\n">>,
     nodes |-> <<
        Node(K_Interface, 0, TRUE, <<"U","s","e","r">>, <<<<"e","x","p","o","r","t">>>>,
             <<"e","x","p","o","r","t"," ","i","n","t","e","r","f","a","c","e"," ","U","s","e","r"," ","{","\n"," "," ","i","d",";","\n","}">>, <<<<<<1, 3>>, <<2, 3>>>>>>),
        Node(K_ExportKeyword, 1, FALSE, Undefined, Null, <<"e","x","p","o","r","t">>, Null),
        Node(K_Identifier, 1, FALSE, Undefined, Null, <<"U","s","e","r">>, <<<<<<1, 3>>, <<2, 3>>>>>>),
        Node(K_PropertySignature, 1, TRUE, <<"i","d">>, <<>>, <<"i","d",";">>, <<<<<<1, 4>>>>>>),
        Node(K_Class, 0, TRUE, <<"U","s","e","r","S","e","r","v","i","c","e">>, <<<<"e","x","p","o","r","t">>>>,
             <<"e","x","p","o","r","t"," ","c","l","a","s","s"," ","U","s","e","r","S","e","r","v","i","c","e"," ","{","\n"," "," ","p","r","i","v","a","t","e"," ","r","e","a","d","o","n","l","y"," ","i","d"," ","="," ","1",";","\n"," "," ","g","e","t","(",")"," ","{","}","\n","}">>,
             <<<<<<1, 5>>>>, <<<<1, 5>>, <<2, 2>>>>>>),
        Node(K_Property, 5, TRUE, <<"i","d">>, <<<<"p","r","i","v","a","t","e">>, <<"r","e","a","d","o","n","l","y">>>>,
             <<"p","r","i","v","a","t","e"," ","r","e","a","d","o","n","l","y"," ","i","d"," ","="," ","1",";">>, <<>>),
        Node(K_Method, 5, TRUE, <<"g","e","t">>, <<>>, <<"g","e","t","(",")"," ","{","}">>, <<<<>>>>),
        Node(K_Function, 0, TRUE, Undefined, <<<<"e","x","p","o","r","t">>, <<"d","e","f","a","u","l","t">>>>,
             <<"e","x","p","o","r","t"," ","d","e","f","a","u","l","t"," ","f","u","n","c","t","i","o","n"," ","(",")"," ","{","}">>, <<>>)
     >>]

FileB ==
    [path |-> <<"/","s","r","c","/","s","e","r","v","i","c","e","s","/","b",".","s","e","r","v","i","c","e",".","t","s">>, baseName |-> <<"b",".","s","e","r","v","i","c","e",".","t","s">>,
     extension |-> <<".","t","s">>,
     text |-> <<"i","m","p","o","r","t"," ","{"," ","U","s","e","r"," ","}"," ","f","r","o","m"," ","'",".",".","/","m","o","d","e","l","s","/","a","'",";","\n">>,
     nodes |-> <<
        Node(K_Import, 0, FALSE, Undefined, Null, <<"i","m","p","o","r","t"," ","{"," ","U","s","e","r"," ","}"," ","f","r","o","m"," ","'",".",".","/","m","o","d","e","l","s","/","a","'",";">>, Null),
        Node(K_Class, 0, TRUE, <<"T","e","s","t","S","e","r","v","i","c","e">>, <<>>,
             <<"c","l","a","s","s"," ","T","e","s","t","S","e","r","v","i","c","e"," ","{","\n"," "," ","t","e","s","t","(","u",":"," ","U","s","e","r",")"," ","{","}","\n","}">>, <<<<<<2, 2>>>>>>),
        Node(K_Identifier, 2, FALSE, Undefined, Null, <<"U","s","e","r">>, <<<<<<1, 3>>, <<2, 3>>>>>>),
        Node(K_Method, 2, TRUE, <<"t","e","s","t">>, <<>>, <<"t","e","s","t","(","u",":"," ","U","s","e","r",")"," ","{","}">>, <<<<<<2, 4>>>>>>),
        Node(K_VariableStatement, 0, FALSE, Undefined, <<<<"e","x","p","o","r","t">>>>,
             <<"e","x","p","o","r","t"," ","c","o","n","s","t"," ","x"," ","="," ","1",","," ","y"," ","="," ","2",";">>, Null),
        Node(K_VariableList, 5, FALSE, Undefined, Null, <<"c","o","n","s","t"," ","x"," ","="," ","1",","," ","y"," ","="," ","2">>, Null),
        Node(K_Variable, 6, TRUE, <<"x">>, Null, <<"x"," ","="," ","1">>, <<<<<<2, 7>>>>>>),
        Node(K_Variable, 6, TRUE, <<"y">>, Null, <<"y"," ","="," ","2">>, <<<<<<2, 8>>>>>>),
        Node(K_TypeAlias, 0, TRUE, <<"U","s","e","r","I","d">>, <<<<"e","x","p","o","r","t">>>>, <<"e","x","p","o","r","t"," ","t","y","p","e"," ","U","s","e","r","I","d"," ","="," ","n","u","m","b","e","r",";">>,
             <<<<<<2, 9>>>>>>),
        Node(K_Enum, 0, TRUE, <<"C","o","l","o","r">>, <<>>, <<"e","n","u","m"," ","C","o","l","o","r"," ","{"," ","R","e","d"," ","}">>, <<<<<<2, 10>>>>>>),
        Node(K_Export, 0, FALSE, Undefined, Null, <<"e","x","p","o","r","t"," ","*"," ","f","r","o","m"," ","'",".","/","c","'",";">>, Null),
        Node(K_Function, 0, TRUE, <<"t","e","s","t","F","u","n","c","t","i","o","n">>, <<<<"e","x","p","o","r","t">>>>,
             <<"e","x","p","o","r","t"," ","f","u","n","c","t","i","o","n"," ","t","e","s","t","F","u","n","c","t","i","o","n","(",")"," ","{","}">>, <<<<<<2, 12>>>>>>)
     >>]

FileC ==
    [path |-> <<"/","s","r","c","/","c",".","t","s","x">>, baseName |-> <<"c",".","t","s","x">>, extension |-> <<".","t","s","x">>,
     text |-> <<"i","n","t","e","r","f","a","c","e"," ","U","s","e","r"," ","{"," ","n","a","m","e",";"," ","}">>,
     nodes |-> <<
        Node(K_Interface, 0, TRUE, <<"U","s","e","r">>, <<>>, <<"i","n","t","e","r","f","a","c","e"," ","U","s","e","r"," ","{"," ","n","a","m","e",";"," ","}">>, <<<<<<4, 1>>>>>>),
        Node(K_PropertySignature, 1, TRUE, <<"n","a","m","e">>, <<>>, <<"n","a","m","e",";">>, <<<<<<4, 2>>>>>>)
     >>]

FileEmpty ==
    [path |-> <<"/","s","r","c","/","e","m","p","t","y",".","t","s">>, baseName |-> <<"e","m","p","t","y",".","t","s">>, extension |-> <<".","t","s">>,
     text |-> <<>>, nodes |-> <<>>]

\* The projects the model runs on.
Projects == {<<FileA, FileB>>, <<FileA, FileB, FileEmpty, FileC>>}

(***************************************************************************)
(* The ts-morph accessors the executor calls, on a project p.              *)
(***************************************************************************)
\* project.getSourceFiles(): the source file nodes in the project's order.
getSourceFiles(p) == [f \in 1..Len(p) |-> <<f, 0>>]

IsSourceFile(id) == id[2] = 0

FileOf(p, id) == p[id[1]]

NodeOf(p, id) == p[id[1]].nodes[id[2]]

\* The nodes of file f whose index is in keep, in document order.
NodesWhere(p, f, keep) ==
    LET idx == SelectSeq([i \in 1..Len(p[f].nodes) |-> i], LAMBDA i : i \in keep)
    IN  [k \in 1..Len(idx) |-> <<f, idx[k]>>]

\* sourceFile.getDescendants()
getDescendants(p, f) == NodesWhere(p, f, DOMAIN p[f].nodes)

\* sourceFile.getInterfaces(), getClasses(), ...: the statements of the file of
\* one kind.
getStatements(p, f, kind) ==
    NodesWhere(p, f, {i \in DOMAIN p[f].nodes :
        p[f].nodes[i].kind = kind /\ p[f].nodes[i].parent = 0})

\* The members of one kind of the class or interface id.
getMembers(p, id, kind) ==
    NodesWhere(p, id[1], {i \in DOMAIN p[id[1]].nodes :
        p[id[1]].nodes[i].kind = kind /\ p[id[1]].nodes[i].parent = id[2]})

\* statement.getDeclarations(): the declarations of the statement's list.
getDeclarations(p, id) ==
    LET nodes == p[id[1]].nodes
    IN  NodesWhere(p, id[1], {i \in DOMAIN nodes :
            /\ nodes[i].kind = K_Variable
            /\ nodes[i].parent # 0
            /\ nodes[nodes[i].parent].parent = id[2]})

\* node.getKindName()
getKindName(p, id) == IF IsSourceFile(id) THEN K_SourceFile ELSE NodeOf(p, id).kind

\* node.getText()
getText(p, id) == IF IsSourceFile(id) THEN FileOf(p, id).text ELSE NodeOf(p, id).text

(***************************************************************************)
(* QueryExecutor                                                           *)
(***************************************************************************)
P_name == <<"n","a","m","e">>

P_kind == <<"k","i","n","d">>

P_text == <<"t","e","x","t">>

P_modifier == <<"m","o","d","i","f","i","e","r">>

P_path == <<"p","a","t","h">>

P_baseName == <<"b","a","s","e","N","a","m","e">>

P_extension == <<"e","x","t","e","n","s","i","o","n">>

\* x || null for a string or undefined x.
OrNull(x) == IF x = Undefined \/ x = <<>> THEN Null ELSE x

RECURSIVE Join(_, _)
\* Array.prototype.join(sep)
Join(ss, sep) ==
    IF ss = <<>> THEN <<>>
    ELSE IF Len(ss) = 1 THEN ss[1]
    ELSE ss[1] \o sep \o Join(Tail(ss), sep)

\* getPropertyValue without the node.getSourceFile() alternative: the path,
\* base name and extension of source file nodes only.
getPropertyValue_OwnFileAttributesOnly(p, id, property) ==
    CASE property = P_name ->
            IF ~IsSourceFile(id) /\ NodeOf(p, id).named
            THEN OrNull(NodeOf(p, id).name)
            ELSE Null
      [] property = P_kind -> getKindName(p, id)
      [] property = P_text -> getText(p, id)
      [] property = P_modifier ->
            IF ~IsSourceFile(id) /\ NodeOf(p, id).mods # Null
            THEN Join(NodeOf(p, id).mods, <<" ">>)
            ELSE Null
      [] property = P_path -> IF IsSourceFile(id) THEN OrNull(FileOf(p, id).path) ELSE Null
      [] property = P_baseName ->
            IF IsSourceFile(id) THEN OrNull(FileOf(p, id).baseName) ELSE Null
      [] property = P_extension ->
            IF IsSourceFile(id) THEN OrNull(FileOf(p, id).extension) ELSE Null
      [] OTHER -> Null

getPropertyValue(p, id, property) ==
    CASE property = P_name ->
            IF ~IsSourceFile(id) /\ NodeOf(p, id).named
            THEN OrNull(NodeOf(p, id).name)
            ELSE Null
      [] property = P_kind -> getKindName(p, id)
      [] property = P_text -> getText(p, id)
      [] property = P_modifier ->
            IF ~IsSourceFile(id) /\ NodeOf(p, id).mods # Null
            THEN Join(NodeOf(p, id).mods, <<" ">>)
            ELSE Null
      [] property = P_path -> OrNull(FileOf(p, id).path)
      [] property = P_baseName -> OrNull(FileOf(p, id).baseName)
      [] property = P_extension -> OrNull(FileOf(p, id).extension)
      [] OTHER -> Null

\* Upper-cases a string.
UpperString(str) == [i \in 1..Len(str) |-> ToUpper(str[i])]

\* matchesCondition without the test of the value for null.
matchesCondition_NoNullCheck(p, id, condition) ==
    LET value == getPropertyValue(p, id, condition.property)
    IN  CASE condition.operator = EQUALS -> ~condition.isArray /\ value = condition.value
          [] condition.operator = NOT_EQUALS -> condition.isArray \/ value # condition.value
          [] condition.operator = LIKE -> matchesPattern(value, condition.value)
          [] condition.operator = NOT_LIKE -> ~matchesPattern(value, condition.value)
          [] condition.operator = IN_OP ->
                condition.isArray /\ value \in Range(condition.value)
          [] condition.operator = NOT_IN ->
                condition.isArray /\ value \notin Range(condition.value)
          [] OTHER -> FALSE

\* matchesCondition with the NOT_LIKE case a copy of the NOT_EQUALS case.
matchesCondition_NotLikeAsNotEquals(p, id, condition) ==
    LET value == getPropertyValue(p, id, condition.property)
    IN  IF value = Null THEN FALSE
        ELSE CASE condition.operator = EQUALS ->
                     ~condition.isArray /\ value = condition.value
               [] condition.operator = NOT_EQUALS ->
                     condition.isArray \/ value # condition.value
               [] condition.operator = LIKE -> matchesPattern(value, condition.value)
               [] condition.operator = NOT_LIKE -> value # condition.value
               [] condition.operator = IN_OP ->
                     condition.isArray /\ value \in Range(condition.value)
               [] condition.operator = NOT_IN ->
                     condition.isArray /\ value \notin Range(condition.value)
               [] OTHER -> FALSE

\* matchesCondition with an IN that ignores the letter case.
matchesCondition_InIgnoreCase(p, id, condition) ==
    LET value == getPropertyValue(p, id, condition.property)
    IN  IF value = Null THEN FALSE
        ELSE CASE condition.operator = EQUALS ->
                     ~condition.isArray /\ value = condition.value
               [] condition.operator = NOT_EQUALS ->
                     condition.isArray \/ value # condition.value
               [] condition.operator = LIKE -> matchesPattern(value, condition.value)
               [] condition.operator = NOT_LIKE -> ~matchesPattern(value, condition.value)
               [] condition.operator = IN_OP ->
                     /\ condition.isArray
                     /\ \E k \in 1..Len(condition.value) :
                           UpperString(condition.value[k]) = UpperString(value)
               [] condition.operator = NOT_IN ->
                     condition.isArray /\ value \notin Range(condition.value)
               [] OTHER -> FALSE

\* A condition is [property, operator, value, isArray]: isArray is
\* Array.isArray(value), value a string or a sequence of strings.
matchesCondition(p, id, condition) ==
    LET value == getPropertyValue(p, id, condition.property)
    IN  IF value = Null THEN FALSE
        ELSE CASE condition.operator = EQUALS ->
                     ~condition.isArray /\ value = condition.value
               [] condition.operator = NOT_EQUALS ->
                     condition.isArray \/ value # condition.value
               [] condition.operator = LIKE -> matchesPattern(value, condition.value)
               [] condition.operator = NOT_LIKE -> ~matchesPattern(value, condition.value)
               [] condition.operator = IN_OP ->
                     condition.isArray /\ value \in Range(condition.value)
               [] condition.operator = NOT_IN ->
                     condition.isArray /\ value \notin Range(condition.value)
               [] OTHER -> FALSE

\* matchesWhereConditions with some in the place of every.
matchesWhereConditions_Some(p, id, conditions) ==
    \E i \in 1..Len(conditions) : matchesCondition(p, id, conditions[i])

matchesWhereConditions(p, id, conditions) ==
    \A i \in 1..Len(conditions) : matchesCondition(p, id, conditions[i])

(***************************************************************************)
(* minimatch(filePath, pattern, { matchBase: true }), for patterns made of *)
(* literal characters, *, ? and ** path segments.                          *)
(***************************************************************************)
\* s.split(c) for a one-character c.
Split(s, c) ==
    LET cuts == SelectSeq([i \in 1..Len(s) |-> i], LAMBDA i : s[i] = c)
        from(k) == IF k = 1 THEN 1 ELSE cuts[k - 1] + 1
        to(k) == IF k > Len(cuts) THEN Len(s) ELSE cuts[k] - 1
    IN  [k \in 1..(Len(cuts) + 1) |-> SubSeq(s, from(k), to(k))]

RECURSIVE GlobSegment(_, _, _, _)
GlobSegment(pat, s, i, j) ==
    IF i > Len(pat) THEN j > Len(s)
    ELSE IF pat[i] = "*"
         THEN \/ GlobSegment(pat, s, i + 1, j)
              \/ j <= Len(s) /\ GlobSegment(pat, s, i, j + 1)
    ELSE IF pat[i] = "?"
         THEN j <= Len(s) /\ GlobSegment(pat, s, i + 1, j + 1)
    ELSE j <= Len(s) /\ s[j] = pat[i] /\ GlobSegment(pat, s, i + 1, j + 1)

IsDotName(s) == s # <<>> /\ s[1] = "."

\* One path segment against one pattern segment: a leading dot is matched
\* only by a literal dot, and a pattern that starts with a wildcard does not
\* match the empty segment.
MatchSegment(pat, s) ==
    /\ IsDotName(s) => IsDotName(pat)
    /\ (pat # <<>> /\ pat[1] \in {"*", "?"}) => s # <<>>
    /\ GlobSegment(pat, s, 1, 1)

RECURSIVE MatchSegments(_, _, _, _)
MatchSegments(pats, segs, i, j) ==
    IF i > Len(pats) THEN j > Len(segs)
    ELSE IF pats[i] = <<"*","*">>
         THEN \/ MatchSegments(pats, segs, i + 1, j)
              \/ /\ j <= Len(segs)
                 /\ ~IsDotName(segs[j])
                 /\ MatchSegments(pats, segs, i, j + 1)
    ELSE /\ j <= Len(segs)
         /\ MatchSegment(pats[i], segs[j])
         /\ MatchSegments(pats, segs, i + 1, j + 1)

minimatch(filePath, pattern) ==
    LET segs == Split(filePath, "/")
    IN  IF "/" \notin Range(pattern)
        THEN MatchSegments(<<pattern>>, <<segs[Len(segs)]>>, 1, 1)
        ELSE MatchSegments(Split(pattern, "/"), segs, 1, 1)

(***************************************************************************)
(* QueryExecutor, continued.  The options are a record whose fields are    *)
(* the properties that are set: filePattern ([isArray, value]: one pattern *)
(* or an array of patterns) and maxResults.                                *)
(***************************************************************************)
NoOptions == [includeNodeModules |-> FALSE]

\* sourceFile.getFilePath().replace(/\\/g, '/')
NormalizedPath(path) == ReplaceChar(path, "\\", <<"/">>)

\* filterSourceFiles with every in the place of some.
filterSourceFiles_Every(p, opts, sourceFiles) ==
    IF \/ "filePattern" \notin DOMAIN opts
       \/ ~opts.filePattern.isArray /\ opts.filePattern.value = <<>>
    THEN sourceFiles
    ELSE LET patterns == IF opts.filePattern.isArray
                         THEN opts.filePattern.value
                         ELSE <<opts.filePattern.value>>
         IN  SelectSeq(sourceFiles, LAMBDA sf :
                \A k \in 1..Len(patterns) :
                    minimatch(NormalizedPath(FileOf(p, sf).path), patterns[k]))

filterSourceFiles(p, opts, sourceFiles) ==
    IF \/ "filePattern" \notin DOMAIN opts
       \/ ~opts.filePattern.isArray /\ opts.filePattern.value = <<>>
    THEN sourceFiles
    ELSE LET patterns == IF opts.filePattern.isArray
                         THEN opts.filePattern.value
                         ELSE <<opts.filePattern.value>>
         IN  SelectSeq(sourceFiles, LAMBDA sf :
                \E k \in 1..Len(patterns) :
                    minimatch(NormalizedPath(FileOf(p, sf).path), patterns[k]))

\* The concatenation of get[x] over the elements x of xs.
FlatMap(xs, get) == Flatten([k \in 1..Len(xs) |-> get[xs[k]]])

\* getNodesByType with the two loops of PropertyDeclaration exchanged.
getNodesByType_InterfacesFirst(p, f, nodeType) ==
    CASE nodeType = K_Star -> getDescendants(p, f)
      [] nodeType = K_Variable ->
            FlatMap(getStatements(p, f, K_VariableStatement),
                    [st \in Range(getStatements(p, f, K_VariableStatement)) |->
                        getDeclarations(p, st)])
      [] nodeType = K_Method ->
            FlatMap(getStatements(p, f, K_Class),
                    [cls \in Range(getStatements(p, f, K_Class)) |->
                        getMembers(p, cls, K_Method)])
      [] nodeType = K_Property ->
            FlatMap(getStatements(p, f, K_Interface),
                    [iface \in Range(getStatements(p, f, K_Interface)) |->
                        getMembers(p, iface, K_PropertySignature)])
            \o FlatMap(getStatements(p, f, K_Class),
                       [cls \in Range(getStatements(p, f, K_Class)) |->
                           getMembers(p, cls, K_Property)])
      [] nodeType \in {K_Interface, K_Class, K_Function, K_TypeAlias, K_Enum, K_Import,
                       K_Export} -> getStatements(p, f, nodeType)
      [] OTHER -> <<>>

\* getNodesByType, were it to collect the descendants of a kind it has no
\* collection for.
getNodesByType_AnyKind(p, f, nodeType) ==
    CASE nodeType = K_Star -> getDescendants(p, f)
      [] nodeType = K_Interface -> getStatements(p, f, K_Interface)
      [] nodeType = K_Class -> getStatements(p, f, K_Class)
      [] nodeType = K_Function -> getStatements(p, f, K_Function)
      [] nodeType = K_TypeAlias -> getStatements(p, f, K_TypeAlias)
      [] nodeType = K_Enum -> getStatements(p, f, K_Enum)
      [] nodeType = K_Import -> getStatements(p, f, K_Import)
      [] nodeType = K_Export -> getStatements(p, f, K_Export)
      [] nodeType = K_Variable ->
            FlatMap(getStatements(p, f, K_VariableStatement),
                    [st \in Range(getStatements(p, f, K_VariableStatement)) |->
                        getDeclarations(p, st)])
      [] nodeType = K_Method ->
            FlatMap(getStatements(p, f, K_Class),
                    [cls \in Range(getStatements(p, f, K_Class)) |->
                        getMembers(p, cls, K_Method)])
      [] nodeType = K_Property ->
            FlatMap(getStatements(p, f, K_Class),
                    [cls \in Range(getStatements(p, f, K_Class)) |->
                        getMembers(p, cls, K_Property)])
            \o FlatMap(getStatements(p, f, K_Interface),
                       [iface \in Range(getStatements(p, f, K_Interface)) |->
                           getMembers(p, iface, K_PropertySignature)])
      [] OTHER ->
            NodesWhere(p, f, {i \in DOMAIN p[f].nodes : p[f].nodes[i].kind = nodeType})

\* getNodesByType, were 'VariableDeclaration' to return the variable statements
\* instead of their declarations.
getNodesByType_VariableStatements(p, f, nodeType) ==
    CASE nodeType = K_Star -> getDescendants(p, f)
      [] nodeType \in {K_Interface, K_Class, K_Function, K_TypeAlias, K_Enum,
                       K_Import, K_Export} -> getStatements(p, f, nodeType)
      [] nodeType = K_Variable -> getStatements(p, f, K_VariableStatement)
      [] nodeType = K_Method ->
            FlatMap(getStatements(p, f, K_Class),
                    [cls \in Range(getStatements(p, f, K_Class)) |->
                        getMembers(p, cls, K_Method)])
      [] nodeType = K_Property ->
            FlatMap(getStatements(p, f, K_Class),
                    [cls \in Range(getStatements(p, f, K_Class)) |->
                        getMembers(p, cls, K_Property)])
            \o FlatMap(getStatements(p, f, K_Interface),
                       [iface \in Range(getStatements(p, f, K_Interface)) |->
                           getMembers(p, iface, K_PropertySignature)])
      [] OTHER -> <<>>

getNodesByType(p, f, nodeType) ==
    CASE nodeType = K_Star -> getDescendants(p, f)
      [] nodeType = K_Interface -> getStatements(p, f, K_Interface)
      [] nodeType = K_Class -> getStatements(p, f, K_Class)
      [] nodeType = K_Function -> getStatements(p, f, K_Function)
      [] nodeType = K_TypeAlias -> getStatements(p, f, K_TypeAlias)
      [] nodeType = K_Enum -> getStatements(p, f, K_Enum)
      [] nodeType = K_Import -> getStatements(p, f, K_Import)
      [] nodeType = K_Export -> getStatements(p, f, K_Export)
      [] nodeType = K_Variable ->
            FlatMap(getStatements(p, f, K_VariableStatement),
                    [st \in Range(getStatements(p, f, K_VariableStatement)) |->
                        getDeclarations(p, st)])
      [] nodeType = K_Method ->
            FlatMap(getStatements(p, f, K_Class),
                    [cls \in Range(getStatements(p, f, K_Class)) |->
                        getMembers(p, cls, K_Method)])
      [] nodeType = K_Property ->
            FlatMap(getStatements(p, f, K_Class),
                    [cls \in Range(getStatements(p, f, K_Class)) |->
                        getMembers(p, cls, K_Property)])
            \o FlatMap(getStatements(p, f, K_Interface),
                       [iface \in Range(getStatements(p, f, K_Interface)) |->
                           getMembers(p, iface, K_PropertySignature)])
      [] OTHER -> <<>>

\* The references of one node with each node listed once.
ReferencesOf_Deduplicated(p, id) ==
    LET all == IF IsSourceFile(id) THEN <<>>
               ELSE IF NodeOf(p, id).refs # Null THEN Flatten(NodeOf(p, id).refs)
               ELSE IF NodeOf(p, id).refsAsNodes # Null THEN NodeOf(p, id).refsAsNodes
               ELSE <<>>
        first == SelectSeq([k \in 1..Len(all) |-> k],
                           LAMBDA k : \A j \in 1..(k - 1) : all[j] # all[k])
    IN  [k \in 1..Len(first) |-> all[first[k]]]

\* The references collected for one node of getReferences' loop.
ReferencesOf(p, id) ==
    IF IsSourceFile(id) THEN <<>>
    ELSE IF NodeOf(p, id).refs # Null THEN Flatten(NodeOf(p, id).refs)
    ELSE IF NodeOf(p, id).refsAsNodes # Null THEN NodeOf(p, id).refsAsNodes
    ELSE <<>>

RECURSIVE getReferences_KeepEmpty(_, _)
\* getReferences, were it to set an entry for every node.
getReferences_KeepEmpty(p, nodes) ==
    IF nodes = <<>> THEN <<>>
    ELSE <<[node |-> Head(nodes), references |-> ReferencesOf(p, Head(nodes))]>>
         \o getReferences_KeepEmpty(p, Tail(nodes))

RECURSIVE getReferences(_, _)
\* The Map as the sequence of its entries [node, references], in insertion order.
getReferences(p, nodes) ==
    IF nodes = <<>> THEN <<>>
    ELSE LET references == ReferencesOf(p, Head(nodes))
         IN  (IF Len(references) > 0
              THEN <<[node |-> Head(nodes), references |-> references]>>
              ELSE <<>>)
             \o getReferences(p, Tail(nodes))

\* A query is [nodeType, withReferences] with the field where when it is set.
\* The result has the field references when it is not undefined.
Filtered(p, query, nodes) ==
    IF "where" \in DOMAIN query
    THEN SelectSeq(nodes, LAMBDA id : matchesWhereConditions(p, id, query.where))
    ELSE nodes

\* execute without the special case of SourceFile's result.
execute_ReferencesForSourceFile(p, opts, query) ==
    LET sourceFiles == filterSourceFiles(p, opts, getSourceFiles(p))
        allNodes == IF query.nodeType = K_SourceFile THEN sourceFiles
                    ELSE FlatMap(sourceFiles,
                                 [sf \in Range(sourceFiles) |->
                                     getNodesByType(p, sf[1], query.nodeType)])
        filteredNodes == Filtered(p, query, allNodes)
    IN  IF query.withReferences
        THEN [nodes |-> filteredNodes, references |-> getReferences(p, filteredNodes)]
        ELSE [nodes |-> filteredNodes]

\* execute, were it to return the source files without reading the conditions.
execute_SourceFilesUnfiltered(p, opts, query) ==
    LET sourceFiles == filterSourceFiles(p, opts, getSourceFiles(p))
    IN  IF query.nodeType = K_SourceFile
        THEN [nodes |-> sourceFiles]
        ELSE LET allNodes == FlatMap(sourceFiles,
                                     [sf \in Range(sourceFiles) |->
                                         getNodesByType(p, sf[1], query.nodeType)])
                 filteredNodes == Filtered(p, query, allNodes)
             IN  IF query.withReferences
                 THEN [nodes |-> filteredNodes,
                       references |-> getReferences(p, filteredNodes)]
                 ELSE [nodes |-> filteredNodes]

execute(p, opts, query) ==
    LET sourceFiles == filterSourceFiles(p, opts, getSourceFiles(p))
    IN  IF query.nodeType = K_SourceFile
        THEN [nodes |-> Filtered(p, query, sourceFiles)]
        ELSE LET allNodes == FlatMap(sourceFiles,
                                     [sf \in Range(sourceFiles) |->
                                         getNodesByType(p, sf[1], query.nodeType)])
                 filteredNodes == Filtered(p, query, allNodes)
             IN  IF query.withReferences
                 THEN [nodes |-> filteredNodes,
                       references |-> getReferences(p, filteredNodes)]
                 ELSE [nodes |-> filteredNodes]

(***************************************************************************)
(* QueryParser                                                             *)
(***************************************************************************)
\* String.prototype.trim
Trim(s) ==
    LET inner == {i \in 1..Len(s) : ~IsSpace(s[i])}
    IN  IF inner = {} THEN <<>>
        ELSE SubSeq(s, CHOOSE i \in inner : \A k \in inner : i <= k,
                       CHOOSE i \in inner : \A k \in inner : i >= k)

\* s.replace(/\s+/g, ' ')
CollapseSpaces(s) ==
    LET keep == SelectSeq([i \in 1..Len(s) |-> i],
                          LAMBDA i : ~(IsSpace(s[i]) /\ i > 1 /\ IsSpace(s[i - 1])))
    IN  [k \in 1..Len(keep) |-> IF IsSpace(s[keep[k]]) THEN " " ELSE s[keep[k]]]

\* KeywordAt, were the regular expressions without the flag i.
KeywordAt_CaseSensitive(s, i, word) ==
    /\ i >= 1
    /\ i + Len(word) - 1 <= Len(s)
    /\ \A k \in 1..Len(word) : s[i + k - 1] = word[k]

\* The keyword word (in upper case) stands at position i of s, in any case.
KeywordAt(s, i, word) ==
    /\ i >= 1
    /\ i + Len(word) - 1 <= Len(s)
    /\ \A k \in 1..Len(word) : ToUpper(s[i + k - 1]) = word[k]

RECURSIVE SpacesEnd(_, _)
\* The position after the longest run of \s that starts at i (i when none).
SpacesEnd(s, i) == IF i <= Len(s) /\ IsSpace(s[i]) THEN SpacesEnd(s, i + 1) ELSE i

RECURSIVE WordEnd(_, _)
\* The position after the longest run of \w that starts at i (i when none).
WordEnd(s, i) == IF i <= Len(s) /\ IsWordChar(s[i]) THEN WordEnd(s, i + 1) ELSE i

\* ends[i] being the end of the match that starts at position i (0 when none
\* does), the least position with a match, 0 when there is none: where a
\* regular expression without the flags g and y matches.
FirstMatch(ends) ==
    IF \E i \in 1..Len(ends) : ends[i] > 0
    THEN CHOOSE i \in 1..Len(ends) : ends[i] > 0 /\ \A k \in 1..(i - 1) : ends[k] = 0
    ELSE 0

\* /WITH\s+REFERENCES/i at position i: the position after the match, or 0.
WithReferencesEnd(s, i) ==
    IF KeywordAt(s, i, <<"W","I","T","H">>)
    THEN LET j == SpacesEnd(s, i + 4)
         IN  IF j > i + 4 /\ KeywordAt(s, j, <<"R","E","F","E","R","E","N","C","E","S">>) THEN j + 10 ELSE 0
    ELSE 0

\* /FROM\s+(\w+)/i at position i: the position after the match, or 0.
FromEnd(s, i) ==
    IF KeywordAt(s, i, <<"F","R","O","M">>)
    THEN LET j == SpacesEnd(s, i + 4)
         IN  IF j > i + 4 /\ WordEnd(s, j) > j THEN WordEnd(s, j) ELSE 0
    ELSE 0

\* /WHERE\s+(.+?)$/i at position i: the position after the match, or 0.
WhereEnd(s, i) ==
    IF KeywordAt(s, i, <<"W","H","E","R","E">>)
    THEN LET j == SpacesEnd(s, i + 5)
         IN  IF /\ j > i + 5
                /\ j <= Len(s)
                /\ \A k \in j..Len(s) : s[k] \notin LineTerminators
             THEN Len(s) + 1
             ELSE 0
    ELSE 0

\* /\s+AND\s+/i at position i: the position after the match, or 0.
AndEnd(s, i) ==
    IF i <= Len(s) /\ IsSpace(s[i])
    THEN LET j == SpacesEnd(s, i)
         IN  IF KeywordAt(s, j, <<"A","N","D">>) /\ SpacesEnd(s, j + 3) > j + 3
             THEN SpacesEnd(s, j + 3)
             ELSE 0
    ELSE 0

RECURSIVE SplitAnd(_)
\* whereClause.split(/\s+AND\s+/i)
SplitAnd(s) ==
    LET i == FirstMatch([k \in 1..Len(s) |-> AndEnd(s, k)])
    IN  IF i = 0 THEN <<s>>
        ELSE <<SubSeq(s, 1, i - 1)>> \o SplitAnd(SubSeq(s, AndEnd(s, i), Len(s)))

QuoteChars == {"'", "\""}

\* v.replace(/^['"]|['"]$/g, '')
StripQuotes(v) ==
    LET a == IF v # <<>> /\ v[1] \in QuoteChars THEN Tail(v) ELSE v
    IN  IF a # <<>> /\ a[Len(a)] \in QuoteChars THEN SubSeq(a, 1, Len(a) - 1) ELSE a

\* The end of the lazy group (.+?) that starts at position m and must be
\* followed by a character of closers: the least e > m with s[e] a closer and
\* no line terminator in m..e-1; 0 when there is none.
LazyEnd(s, m, closers) ==
    IF \E e \in (m + 1)..Len(s) :
          s[e] \in closers /\ \A k \in m..(e - 1) : s[k] \notin LineTerminators
    THEN CHOOSE e \in (m + 1)..Len(s) :
            /\ s[e] \in closers
            /\ \A k \in m..(e - 1) : s[k] \notin LineTerminators
            /\ \A d \in (m + 1)..(e - 1) : s[d] \notin closers
    ELSE 0

\* The optional group (NOT\s+)? at position j: the position after it (j when
\* the group matches nothing).
NotEnd(s, j) ==
    IF KeywordAt(s, j, <<"N","O","T">>) /\ SpacesEnd(s, j + 3) > j + 3
    THEN SpacesEnd(s, j + 3)
    ELSE j

\* /(\w+)\s+(NOT\s+)?IN\s+\((.+?)\)/i at position i: the match as
\* [property, isNot, from, to] (the group (.+?) is s[from..to]), or [to |-> 0].
NoMatch == [to |-> 0]

InMatchAt(s, i) ==
    LET w == WordEnd(s, i)
        j == SpacesEnd(s, w)
        k == NotEnd(s, j)
        m == SpacesEnd(s, k + 2)
    IN  IF /\ w > i
           /\ j > w
           /\ KeywordAt(s, k, <<"I","N">>)
           /\ m > k + 2
           /\ m <= Len(s)
           /\ s[m] = "("
           /\ LazyEnd(s, m + 1, {")"}) > 0
        THEN [property |-> SubSeq(s, i, w - 1), isNot |-> k > j,
              from |-> m + 1, to |-> LazyEnd(s, m + 1, {")"}) - 1]
        ELSE NoMatch

\* /(\w+)\s+(NOT\s+)?LIKE\s+['"](.+?)['"]/i at position i.
LikeMatchAt(s, i) ==
    LET w == WordEnd(s, i)
        j == SpacesEnd(s, w)
        k == NotEnd(s, j)
        m == SpacesEnd(s, k + 4)
    IN  IF /\ w > i
           /\ j > w
           /\ KeywordAt(s, k, <<"L","I","K","E">>)
           /\ m > k + 4
           /\ m <= Len(s)
           /\ s[m] \in QuoteChars
           /\ LazyEnd(s, m + 1, QuoteChars) > 0
        THEN [property |-> SubSeq(s, i, w - 1), isNot |-> k > j,
              from |-> m + 1, to |-> LazyEnd(s, m + 1, QuoteChars) - 1]
        ELSE NoMatch

\* /(\w+)\s*(=|!=)\s*['"](.+?)['"]/i at position i; isNot: the group (=|!=)
\* is not '='.
EqualityMatchAt(s, i) ==
    LET w == WordEnd(s, i)
        j == SpacesEnd(s, w)
        k == IF j <= Len(s) /\ s[j] = "=" THEN j + 1
             ELSE IF j < Len(s) /\ s[j] = "!" /\ s[j + 1] = "=" THEN j + 2
             ELSE 0
        m == SpacesEnd(s, k)
    IN  IF /\ w > i
           /\ k > 0
           /\ m <= Len(s)
           /\ s[m] \in QuoteChars
           /\ LazyEnd(s, m + 1, QuoteChars) > 0
        THEN [property |-> SubSeq(s, i, w - 1), isNot |-> k = j + 2,
              from |-> m + 1, to |-> LazyEnd(s, m + 1, QuoteChars) - 1]
        ELSE NoMatch

\* condition.match(re) for one of the three expressions: the match at the least
\* position that has one, or NoMatch.
MatchOf(matches) ==
    LET i == FirstMatch([k \in 1..Len(matches) |-> matches[k].to])
    IN  IF i = 0 THEN NoMatch ELSE matches[i]

\* inMatch[3].split(',').map(v => v.trim().replace(/^['"]|['"]$/g, ''))
InValues(list) ==
    LET parts == Split(list, ",")
    IN  [k \in 1..Len(parts) |-> StripQuotes(Trim(parts[k]))]

\* parseCondition's null.
NoCondition == [isNull |-> TRUE]

\* The WhereCondition, or NoCondition.
parseCondition(condition) ==
    LET inMatch == MatchOf([i \in 1..Len(condition) |-> InMatchAt(condition, i)])
        likeMatch == MatchOf([i \in 1..Len(condition) |-> LikeMatchAt(condition, i)])
        equalityMatch == MatchOf([i \in 1..Len(condition) |-> EqualityMatchAt(condition, i)])
    IN  IF inMatch # NoMatch
        THEN [property |-> inMatch.property,
              operator |-> IF inMatch.isNot THEN NOT_IN ELSE IN_OP,
              value |-> InValues(SubSeq(condition, inMatch.from, inMatch.to)),
              isArray |-> TRUE]
        ELSE IF likeMatch # NoMatch
        THEN [property |-> likeMatch.property,
              operator |-> IF likeMatch.isNot THEN NOT_LIKE ELSE LIKE,
              value |-> SubSeq(condition, likeMatch.from, likeMatch.to),
              isArray |-> FALSE]
        ELSE IF equalityMatch # NoMatch
        THEN [property |-> equalityMatch.property,
              operator |-> IF equalityMatch.isNot THEN NOT_EQUALS ELSE EQUALS,
              value |-> SubSeq(condition, equalityMatch.from, equalityMatch.to),
              isArray |-> FALSE]
        ELSE NoCondition

\* parseWhereClause, were it to give up at the first part that is no condition.
parseWhereClause_StopAtUnclassified(whereClause) ==
    LET parts == SplitAnd(whereClause)
        parsed == [k \in 1..Len(parts) |-> parseCondition(Trim(parts[k]))]
        stop == IF \E k \in 1..Len(parsed) : parsed[k] = NoCondition
                THEN CHOOSE k \in 1..Len(parsed) :
                        parsed[k] = NoCondition /\ \A j \in 1..(k - 1) : parsed[j] # NoCondition
                ELSE Len(parsed) + 1
    IN  SubSeq(parsed, 1, stop - 1)

parseWhereClause(whereClause) ==
    LET parts == SplitAnd(whereClause)
        parsed == [k \in 1..Len(parts) |-> parseCondition(Trim(parts[k]))]
    IN  SelectSeq(parsed, LAMBDA c : c # NoCondition)

MissingFrom == <<"I","n","v","a","l","i","d"," ","q","u","e","r","y",":"," ","m","i","s","s","i","n","g"," ","F","R","O","M"," ","c","l","a","u","s","e">>

\* query.trim().replace(/\s+/g, ' ')
Normalized(query) == CollapseSpaces(Trim(query))

\* normalized.replace(/WITH\s+REFERENCES/i, '').trim()
WithoutReferences(normalized) ==
    LET i == FirstMatch([k \in 1..Len(normalized) |-> WithReferencesEnd(normalized, k)])
    IN  IF i = 0 THEN Trim(normalized)
        ELSE Trim(SubSeq(normalized, 1, i - 1)
                  \o SubSeq(normalized, WithReferencesEnd(normalized, i), Len(normalized)))

\* The kinds execute has a collection for.
RecognizedKinds == NodeTypes \cup {K_SourceFile}

\* parse, were it to reject a category that is not a recognized kind.
parse_RecognizedOnly(query) ==
    LET normalized == Normalized(query)
        withReferences ==
            FirstMatch([k \in 1..Len(normalized) |-> WithReferencesEnd(normalized, k)]) > 0
        q == WithoutReferences(normalized)
        fromAt == FirstMatch([k \in 1..Len(q) |-> FromEnd(q, k)])
        nodeType == SubSeq(q, SpacesEnd(q, fromAt + 4), FromEnd(q, fromAt) - 1)
        whereAt == FirstMatch([k \in 1..Len(q) |-> WhereEnd(q, k)])
    IN  IF fromAt = 0 \/ nodeType \notin RecognizedKinds THEN [error |-> MissingFrom]
        ELSE IF whereAt = 0
        THEN [nodeType |-> nodeType, withReferences |-> withReferences]
        ELSE [nodeType |-> nodeType,
              where |-> parseWhereClause(SubSeq(q, SpacesEnd(q, whereAt + 5), Len(q))),
              withReferences |-> withReferences]

\* parse, were it to throw when a part of the WHERE clause is no condition.
parse_ThrowOnUnclassified(query) ==
    LET normalized == Normalized(query)
        withReferences ==
            FirstMatch([k \in 1..Len(normalized) |-> WithReferencesEnd(normalized, k)]) > 0
        q == WithoutReferences(normalized)
        fromAt == FirstMatch([k \in 1..Len(q) |-> FromEnd(q, k)])
        nodeType == SubSeq(q, SpacesEnd(q, fromAt + 4), FromEnd(q, fromAt) - 1)
        whereAt == FirstMatch([k \in 1..Len(q) |-> WhereEnd(q, k)])
        parts == SplitAnd(SubSeq(q, SpacesEnd(q, whereAt + 5), Len(q)))
    IN  IF fromAt = 0 THEN [error |-> MissingFrom]
        ELSE IF whereAt = 0
        THEN [nodeType |-> nodeType, withReferences |-> withReferences]
        ELSE IF \E k \in 1..Len(parts) : parseCondition(Trim(parts[k])) = NoCondition
        THEN [error |-> <<"I","n","v","a","l","i","d"," ","q","u","e","r","y",":"," ","m","a","l","f","o","r","m","e","d"," ","W","H","E","R","E"," ","c","l","a","u","s","e">>]
        ELSE [nodeType |-> nodeType,
              where |-> parseWhereClause(SubSeq(q, SpacesEnd(q, whereAt + 5), Len(q))),
              withReferences |-> withReferences]

\* The ParsedQuery, or [error |-> message] when parse throws.
parse(query) ==
    LET normalized == Normalized(query)
        withReferences ==
            FirstMatch([k \in 1..Len(normalized) |-> WithReferencesEnd(normalized, k)]) > 0
        q == WithoutReferences(normalized)
        fromAt == FirstMatch([k \in 1..Len(q) |-> FromEnd(q, k)])
        nodeType == SubSeq(q, SpacesEnd(q, fromAt + 4), FromEnd(q, fromAt) - 1)
        whereAt == FirstMatch([k \in 1..Len(q) |-> WhereEnd(q, k)])
    IN  IF fromAt = 0 THEN [error |-> MissingFrom]
        ELSE IF whereAt = 0
        THEN [nodeType |-> nodeType, withReferences |-> withReferences]
        ELSE [nodeType |-> nodeType,
              where |-> parseWhereClause(SubSeq(q, SpacesEnd(q, whereAt + 5), Len(q))),
              withReferences |-> withReferences]

Threw(r) == "error" \in DOMAIN r

\* validate, were it to answer valid = true whatever parse does.
validate_AlwaysValid(query) == [valid |-> TRUE]

validate(query) ==
    IF Threw(parse(query))
    THEN [valid |-> FALSE, error |-> parse(query).error]
    ELSE [valid |-> TRUE]

(***************************************************************************)
(* TsMorphSelector                                                         *)
(***************************************************************************)
\* Array.prototype.slice(0, end)
Slice0(a, end) ==
    LET e == IF end < 0 THEN (IF Len(a) + end < 0 THEN 0 ELSE Len(a) + end)
             ELSE IF end > Len(a) THEN Len(a) ELSE end
    IN  SubSeq(a, 1, e)

\* The max results limit of query: the nodes of the result to return.
Limited(opts, nodes) ==
    IF /\ "maxResults" \in DOMAIN opts
       /\ opts.maxResults # 0
       /\ Len(nodes) > opts.maxResults
    THEN Slice0(nodes, opts.maxResults)
    ELSE nodes

\* query, were the executor to keep the matches of the session's earlier
\* queries in its list.
query_Accumulating(p, opts, queryString) ==
    LET parsedQuery == parse(queryString)
        earlier == IF log = <<>> \/ Threw(log[Len(log)].output) THEN <<>>
                   ELSE log[Len(log)].output.nodes
    IN  IF Threw(parsedQuery) THEN parsedQuery
        ELSE LET result == execute(p, NoOptions, parsedQuery)
             IN  [result EXCEPT !.nodes = Limited(opts, earlier \o result.nodes)]

\* The executor of the selector is constructed without options.
query(p, opts, queryString) ==
    LET parsedQuery == parse(queryString)
    IN  IF Threw(parsedQuery) THEN parsedQuery
        ELSE LET result == execute(p, NoOptions, parsedQuery)
             IN  [result EXCEPT !.nodes = Limited(opts, result.nodes)]

(***************************************************************************)
(* Inputs                                                                  *)
(***************************************************************************)
\* The longest value and pattern handed to matchesPattern on their own.
MaxValueLen == 3

MaxPatternLen == 3

\* The longest operand list of an IN / NOT IN condition.
MaxListLen == 2

\* The most conditions in the where of a descriptor handed to execute.
MaxWhere == 2

\* The largest maxResults option.
MaxResultsOption == 2

\* The number of queries a session's log holds.
MaxCalls == 3

StringsUpTo(alphabet, n) == UNION {[1..k -> alphabet] : k \in 0..n}

ValueChars == {"a", "A", ".", "\n"}

PatternChars == {"a", ".", "%", "_"}

AllNodes(p) == UNION {{<<f, i>> : i \in 0..Len(p[f].nodes)} : f \in 1..Len(p)}

P_unknown == <<"o","w","n","e","r">>

Properties == {P_name, P_kind, P_text, P_modifier, P_path, P_baseName, P_extension, P_unknown}

ScalarOperands ==
    {<<"U","s","e","r">>, <<"u","s","e","r">>, <<"%","s","e","r","v","i","c","e">>, <<"e","x","p","o","r","t">>, <<"%","i","d","%">>, <<"_",".","t","s">>, K_Class}

ListMembers == {<<"U","s","e","r">>, <<"u","s","e","r">>, <<"a",".","t","s">>, <<"e","x","p","o","r","t">>}

Condition(property, operator, value, isArray) ==
    [property |-> property, operator |-> operator, value |-> value, isArray |-> isArray]

MatchConditions ==
    {Condition(pr, o, v, FALSE) :
        pr \in Properties, o \in {EQUALS, NOT_EQUALS, LIKE, NOT_LIKE}, v \in ScalarOperands}
    \cup {Condition(pr, o, v, TRUE) :
        pr \in Properties, o \in {IN_OP, NOT_IN}, v \in StringsUpTo(ListMembers, MaxListLen)}
    \cup {Condition(pr, o, <<"U","s","e","r">>, FALSE) : pr \in Properties, o \in {IN_OP, NOT_IN}}

\* The conditions of the descriptors handed to execute.
ExecuteConditions ==
    {Condition(P_name, EQUALS, <<"U","s","e","r">>, FALSE),
     Condition(P_name, LIKE, <<"%","s","e","r","v","i","c","e">>, FALSE),
     Condition(P_modifier, NOT_EQUALS, <<"e","x","p","o","r","t">>, FALSE),
     Condition(P_kind, IN_OP, <<K_Class, K_PropertySignature, K_SourceFile>>, TRUE),
     Condition(P_baseName, NOT_LIKE, <<"%",".","s","e","r","v","i","c","e",".","t","s">>, FALSE),
     Condition(P_path, NOT_LIKE, <<"/","s","r","c","/","%","/","%">>, FALSE),
     Condition(P_extension, EQUALS, <<".","t","s","x">>, FALSE)}

K_Unknown == <<"D","e","c","o","r","a","t","o","r">>

\* Categories that are no recognized kind: one that no node has, and two that
\* nodes of the project have.
UnknownKinds == {K_Unknown, K_PropertySignature, K_Identifier}

Descriptors ==
    LET base == [nodeType : NodeTypes \cup {K_SourceFile} \cup UnknownKinds,
                 withReferences : BOOLEAN]
    IN  base \cup
        {[nodeType |-> b.nodeType, where |-> w, withReferences |-> b.withReferences] :
            b \in base, w \in StringsUpTo(ExecuteConditions, MaxWhere)}

FilePattern(value, isArray) == [filePattern |-> [value |-> value, isArray |-> isArray]]

\* The options a QueryExecutor is constructed with.
ExecutorOptions ==
    {NoOptions,
     FilePattern(<<"*","*","/","*",".","s","e","r","v","i","c","e",".","t","s">>, FALSE),
     FilePattern(<<<<"*",".","t","s","x">>, <<"/","s","r","c","/","m","o","d","e","l","s","/","*">>>>, TRUE),
     FilePattern(<<>>, FALSE),
     FilePattern(<<>>, TRUE)}

\* The options a TsMorphSelector is constructed with.
SelectorOptions ==
    {NoOptions} \cup {[maxResults |-> n] : n \in 0..MaxResultsOption}

Selects == {<<"S","E","L","E","C","T"," ","*"," ","F","R","O","M"," ">>, <<" "," ","s","e","l","e","c","t"," ","*","\n","\t","f","r","o","m"," "," ">>}

Categories == {K_Interface, K_Class, K_Property, K_SourceFile, K_Star, K_Unknown}

Wheres ==
    {<<>>,
     <<" ","W","H","E","R","E"," ","n","a","m","e"," ","="," ","'","U","s","e","r","'">>,
     <<" ","w","h","e","r","e"," ","n","a","m","e"," ","L","I","K","E"," ","\"","%","s","e","r","v","i","c","e","\""," ","a","n","d"," ","k","i","n","d"," ","i","n"," ","(","'","C","l","a","s","s","D","e","c","l","a","r","a","t","i","o","n","'",","," ","\"","P","r","o","p","e","r","t","y","S","i","g","n","a","t","u","r","e","\"",")">>,
     <<" ","W","H","E","R","E"," ","t","e","x","t"," ","L","I","K","E"," ","'","%","w","i","t","h"," ","r","e","f","e","r","e","n","c","e","s","%","'">>,
     <<" ","W","H","E","R","E"," ","m","o","d","i","f","i","e","r"," ","!","="," ","'","e","x","p","o","r","t","'"," ","A","N","D"," ","n","a","m","e"," ","N","O","T"," ","I","N"," ","(","'","U","s","e","r","'",")">>,
     <<" ","W","H","E","R","E"," ","n","a","m","e"," ","~"," ","'","x","'"," ","A","N","D"," ","b","a","s","e","N","a","m","e"," ","N","O","T"," ","L","I","K","E"," ","'","%",".","s","e","r","v","i","c","e",".","t","s","'">>,
     <<" ","W","H","E","R","E"," ","n","a","m","e"," ","="," ","'","U","s","e","r","'"," ","A","N","D"," ","e","x","p","o","r","t","e","d"," ","A","N","D"," ","k","i","n","d"," ","!","="," ","'","E","n","u","m","D","e","c","l","a","r","a","t","i","o","n","'">>,
     <<" ","W","H","E","R","E"," ","n","a","m","e"," ","i","s"," ","n","u","l","l">>}

Withs == {<<>>, <<" ","W","I","T","H"," ","R","E","F","E","R","E","N","C","E","S">>, <<" ","w","i","t","h"," "," ","r","e","f","e","r","e","n","c","e","s"," ">>}

\* A condition as a query writes it, with the attribute, the operator and the
\* operand it is written with.
Written(text, property, operator, value) ==
    [text |-> text, property |-> property, operator |-> operator, value |-> value]

WrittenConditions ==
    {Written(<<"n","a","m","e"," ","="," ","'","T","e","s","t","'">>, P_name, EQUALS, <<"T","e","s","t">>),
     Written(<<"k","i","n","d"," ","!","="," ","\"","C","l","a","s","s","D","e","c","l","a","r","a","t","i","o","n","\"">>, P_kind, NOT_EQUALS, K_Class),
     Written(<<"n","a","m","e"," ","L","I","K","E"," ","'","t","e","s","t","%","'">>, P_name, LIKE, <<"t","e","s","t","%">>),
     Written(<<"n","a","m","e"," ","N","O","T"," ","L","I","K","E"," ","'","T","e","s","t","%","'">>, P_name, NOT_LIKE, <<"T","e","s","t","%">>),
     Written(<<"t","e","x","t"," ","L","I","K","E"," ","'","%","r","e","a","d"," ","a","n","d"," ","w","r","i","t","e","%","'">>, P_text, LIKE, <<"%","r","e","a","d"," ","a","n","d"," ","w","r","i","t","e","%">>),
     Written(<<"t","e","x","t"," ","L","I","K","E"," ","'","%","k","e","y"," ","i","n"," ","(","o","b","j",")","%","'">>, P_text, LIKE, <<"%","k","e","y"," ","i","n"," ","(","o","b","j",")","%">>),
     Written(<<"t","e","x","t"," ","="," ","\"","a"," ","l","i","k","e"," ","'","b","'","\"">>, P_text, EQUALS, <<"a"," ","l","i","k","e"," ","'","b","'">>)}

\* The query whose WHERE clause is the conditions joined by AND.
ConditionQuery(conditions) ==
    <<"S","E","L","E","C","T"," ","*"," ","F","R","O","M"," ","C","l","a","s","s","D","e","c","l","a","r","a","t","i","o","n"," ","W","H","E","R","E"," ">>
        \o Join([k \in 1..Len(conditions) |-> conditions[k].text], <<" ","A","N","D"," ">>)

ConditionQueries ==
    {ConditionQuery(conditions) :
        conditions \in StringsUpTo(WrittenConditions, MaxWhere) \ {<<>>}}

QueryStrings ==
    {s \o c \o w \o r : s \in Selects, c \in Categories, w \in Wheres, r \in Withs}
    \cup {<<"I","N","V","A","L","I","D"," ","Q","U","E","R","Y">>, <<"I","N","V","A","L","I","D">>, <<>>, <<"S","E","L","E","C","T"," ","*"," ","F","R","O","M">>,
          <<"S","E","L","E","C","T"," ","*"," ","F","R","O","M"," ","C","l","a","s","s","D","e","c","l","a","r","a","t","i","o","n"," ","W","I","T","H"," ","R","E","F","E","R","E","N","C","E","S"," ","W","H","E","R","E"," ","n","a","m","e"," ","="," ","'","U","s","e","r","'">>,
          <<"S","E","L","E","C","T"," ","*"," ","W","H","E","R","E"," ","n","a","m","e"," ","="," ","'","U","s","e","r","'">>,
          <<"S","E","L","E","C","T"," ","*"," ","F","R","O","M"," ","W","I","T","H"," ","R","E","F","E","R","E","N","C","E","S">>,
          <<"S","E","L","E","C","T"," ","*"," ","F","R","O","W","I","T","H"," ","R","E","F","E","R","E","N","C","E","S","M"," ","C","l","a","s","s","D","e","c","l","a","r","a","t","i","o","n">>,
          <<"S","E","L","E","C","T"," ","*"," ","F","R","O","M"," ","M","e","t","h","o","d","D","e","c","l","a","r","a","t","i","o","n"," ","W","H","E","R","E"," ","t","e","x","t"," ","I","N"," ","(","'","g","e","t","(",")"," ","{","}","'",","," ","\"","x","\"",")">>}

\* The strings handed to the parser on its own.
ParserStrings == QueryStrings \cup ConditionQueries

(***************************************************************************)
(* Specifications.  project is the Project; a step constructs an executor  *)
(* or a selector with some options and calls one operation on it: op names *)
(* the operation, input is what it was called with, output what it         *)
(* returned (for parse and query, [error |-> message] when it threw).  The *)
(* calls are synchronous and follow one another: Return ends a call.       *)
(* log is the record of the queries of a session (SpecSession): for each,  *)
(* the project it ran on, the options, the query string and the result.    *)
(***************************************************************************)
\* A call, were it to remove the source files after the first from the project.
Call_RemovingSourceFiles(name, opts, in, out) ==
    /\ op' = name
    /\ options' = opts
    /\ input' = in
    /\ output' = out
    /\ project' = SubSeq(project, 1, 1)
    /\ UNCHANGED log

Call(name, opts, in, out) ==
    /\ op' = name
    /\ options' = opts
    /\ input' = in
    /\ output' = out
    /\ UNCHANGED <<project, log>>

Init ==
    /\ project \in Projects
    /\ options = NoOptions
    /\ op = "idle"
    /\ input = <<>>
    /\ output = <<>>
    /\ log = <<>>

Return ==
    /\ op # "idle"
    /\ op' = "idle"
    /\ options' = NoOptions
    /\ input' = <<>>
    /\ output' = <<>>
    /\ UNCHANGED <<project, log>>

\* new QueryExecutor(project, opts).execute(q)
Execute(opts, q) == Call("execute", opts, q, execute(project, opts, q))

\* new TsMorphSelector(project, opts).query(s)
Query(opts, s) == Call("query", opts, s, query(project, opts, s))

Next ==
    \/ op = "idle" /\ \E opts \in ExecutorOptions, q \in Descriptors : Execute(opts, q)
    \/ op = "idle" /\ \E opts \in SelectorOptions, s \in QueryStrings : Query(opts, s)
    \/ Return

Spec == Init /\ [][Next]_vars

\* new QueryParser().parse(s)
Parse(s) == Call("parse", NoOptions, s, parse(s))

\* new QueryParser().validate(s)
Validate(s) == Call("validate", NoOptions, s, validate(s))

NextParse ==
    \/ op = "idle" /\ \E s \in ParserStrings : Parse(s)
    \/ op = "idle" /\ \E s \in ParserStrings : Validate(s)
    \/ Return

SpecParse == Init /\ [][NextParse]_vars

\* The private matchesPattern and matchesCondition of an executor, on their own.
MatchesPattern(value, pattern) ==
    Call("matchesPattern", NoOptions, [value |-> value, pattern |-> pattern],
         matchesPattern(value, pattern))

MatchesCondition(id, condition) ==
    Call("matchesCondition", NoOptions, [node |-> id, condition |-> condition],
         matchesCondition(project, id, condition))

NextMatch ==
    \/ /\ op = "idle"
       /\ \E value \in StringsUpTo(ValueChars, MaxValueLen),
             pattern \in StringsUpTo(PatternChars, MaxPatternLen) :
               MatchesPattern(value, pattern)
    \/ /\ op = "idle"
       /\ \E id \in AllNodes(project), condition \in MatchConditions :
               MatchesCondition(id, condition)
    \/ Return

InitMatch == Init /\ \A p \in Projects : Len(p) <= Len(project)

SpecMatch == InitMatch /\ [][NextMatch]_vars

\* The query strings of a session, and one that parse throws on.
SessionQueries ==
    {<<"S","E","L","E","C","T"," ","*"," ","F","R","O","M"," ","C","l","a","s","s","D","e","c","l","a","r","a","t","i","o","n"," ","W","I","T","H"," ","R","E","F","E","R","E","N","C","E","S">>,
     <<"S","E","L","E","C","T"," ","*"," ","F","R","O","M"," ","I","n","t","e","r","f","a","c","e","D","e","c","l","a","r","a","t","i","o","n"," ","W","H","E","R","E"," ","n","a","m","e"," ","="," ","'","U","s","e","r","'">>,
     <<"S","E","L","E","C","T"," ","*"," ","F","R","O","M"," ","S","o","u","r","c","e","F","i","l","e">>}

SessionStrings == SessionQueries \cup {<<"I","N","V","A","L","I","D">>}

SessionSelectorOptions ==
    {NoOptions, [maxResults |-> 1], FilePattern(<<"*","*","/","*",".","s","e","r","v","i","c","e",".","t","s">>, FALSE)}

SessionExecutorOptions == {NoOptions, FilePattern(<<"*","*","/","*",".","s","e","r","v","i","c","e",".","t","s">>, FALSE)}

\* selector.query(s), entered in the log of the session; the selector of a
\* session is constructed once, so all its queries run with the same options.
SessionQuery(opts, s) ==
    /\ Len(log) < MaxCalls
    /\ \A i \in 1..Len(log) : log[i].options = opts
    /\ op' = "query"
    /\ options' = opts
    /\ input' = s
    /\ output' = query(project, opts, s)
    /\ log' = Append(log, [project |-> project, options |-> opts, input |-> s,
                           output |-> query(project, opts, s)])
    /\ UNCHANGED project

\* project.createSourceFile(...), between two calls: the caller adds the
\* source files of the larger project.
CreateSourceFiles ==
    /\ op = "idle"
    /\ \E p \in Projects :
           /\ Len(p) > Len(project)
           /\ SubSeq(p, 1, Len(project)) = project
           /\ project' = p
    /\ UNCHANGED <<options, op, input, output, log>>

NextSession ==
    \/ op = "idle" /\ \E opts \in SessionSelectorOptions, s \in SessionQueries :
                          SessionQuery(opts, s)
    \/ op = "idle" /\ \E opts \in SessionExecutorOptions, s \in SessionQueries :
                          Execute(opts, parse(s))
    \/ op = "idle" /\ \E s \in SessionStrings : Parse(s)
    \/ op = "idle" /\ \E s \in SessionStrings : Validate(s)
    \/ CreateSourceFiles
    \/ Return

SpecSession == Init /\ [][NextSession]_vars

(***************************************************************************)
(* Properties                                                              *)
(***************************************************************************)
\* The descriptor the executor ran in an execute or a query step.
Descriptor == IF op = "execute" THEN input ELSE parse(input)

\* An execute step, or a query step that did not throw.
Executed == op \in {"execute", "query"} /\ ~Threw(output)

WithWhere(q, conditions) ==
    [nodeType |-> q.nodeType, where |-> conditions, withReferences |-> q.withReferences]

WithoutWhere(q) == [nodeType |-> q.nodeType, withReferences |-> q.withReferences]

TwoConditions == op = "execute" /\ "where" \in DOMAIN input /\ Len(input.where) = 2

First == execute(project, options, WithWhere(input, <<input.where[1]>>)).nodes

Second == execute(project, options, WithWhere(input, <<input.where[2]>>)).nodes

\* C1: execute with where = [P1, P2] returns the nodes that are in both
\* execute([P1]) and execute([P2]), in the order of the unfiltered candidates.
C1_AndIsIntersection ==
    TwoConditions =>
        output.nodes =
            SelectSeq(execute(project, options, WithoutWhere(input)).nodes,
                      LAMBDA id : id \in Range(First) /\ id \in Range(Second))

\* C1's case: two conditions, each of which alone keeps a node the other drops.
C1_Witness ==
    /\ TwoConditions
    /\ output.nodes # <<>>
    /\ Range(First) \ Range(Second) # {}
    /\ Range(Second) \ Range(First) # {}

ConditionStep == op = "matchesCondition"

\* The value getPropertyValue gives for the node and the attribute of the step.
StepValue == getPropertyValue(project, input.node, input.condition.property)

\* The result of the step's condition with another operator.
WithOperator(o) ==
    matchesCondition(project, input.node, [input.condition EXCEPT !.operator = o])

\* C2: when the attribute has no value for the node, the predicate is false,
\* whichever of the six operators it has.
C2_AbsentValueFails == (ConditionStep /\ StepValue = Null) => output = FALSE

\* C2's case: no value, and an operator that a missing test for it would let pass.
C2_Witness ==
    /\ ConditionStep
    /\ StepValue = Null
    /\ input.condition.property = P_modifier
    /\ input.condition.operator = NOT_IN
    /\ input.condition.isArray

\* C3: LIKE passes if and only if the whole value matches the pattern
\* case-insensitively, % being zero or more of any character, _ exactly one of
\* any character and every other character itself.
C3_LikeIsSqlLike ==
    /\ op = "matchesPattern" => output = SqlLike(input.pattern, input.value, 1, 1)
    /\ (ConditionStep /\ input.condition.operator = LIKE /\ StepValue # Null) =>
          output = SqlLike(input.condition.value, StepValue, 1, 1)

\* C4: with a value present exactly one of LIKE p and NOT LIKE p passes; with
\* no value both fail.
C4_LikeComplement ==
    (ConditionStep /\ input.condition.operator \in {LIKE, NOT_LIKE}) =>
        IF StepValue # Null
        THEN WithOperator(LIKE) # WithOperator(NOT_LIKE)
             /\ output \in {WithOperator(LIKE), WithOperator(NOT_LIKE)}
             /\ output = WithOperator(input.condition.operator)
        ELSE ~output /\ ~WithOperator(LIKE) /\ ~WithOperator(NOT_LIKE)

\* C4's case: a value that matches only through a wildcard, so that NOT LIKE fails.
C4_Witness ==
    /\ ConditionStep
    /\ input.condition.operator = NOT_LIKE
    /\ StepValue # Null
    /\ StepValue # input.condition.value
    /\ output = FALSE

\* C5: for a value that is present and an operand list L, IN passes if and only
\* if NOT IN fails, and IN is the membership of the value in L, case-sensitive.
C5_InComplement ==
    (/\ ConditionStep
     /\ input.condition.operator \in {IN_OP, NOT_IN}
     /\ input.condition.isArray
     /\ StepValue # Null) =>
        /\ WithOperator(IN_OP) = (StepValue \in Range(input.condition.value))
        /\ WithOperator(NOT_IN) = ~WithOperator(IN_OP)
        /\ output = WithOperator(input.condition.operator)

\* C5's case: the list holds the value in another letter case only.
C5_Witness ==
    /\ ConditionStep
    /\ input.condition.operator = IN_OP
    /\ input.condition.isArray
    /\ StepValue # Null
    /\ StepValue \notin Range(input.condition.value)
    /\ \E k \in 1..Len(input.condition.value) :
          UpperString(input.condition.value[k]) = UpperString(StepValue)
    /\ output = FALSE

\* Every descendant of every source file of the project, file by file.
AllDescendants == FlatMap(getSourceFiles(project),
                          [sf \in Range(getSourceFiles(project)) |->
                              getDescendants(project, sf[1])])

\* C6: the query 'SELECT * FROM *' parses to a descriptor of category '*', and
\* executing it returns every descendant of every source file in scope.
C6_WildcardQueryable ==
    (op = "query" /\ input = <<"S","E","L","E","C","T"," ","*"," ","F","R","O","M"," ","*">>) =>
        /\ ~Threw(output)
        /\ parse(input).nodeType = K_Star
        /\ output.nodes = AllDescendants

\* The position at which the WITH REFERENCES clause that ends s starts, 0 when
\* s does not end with the clause.
TrailingClause(s) ==
    IF \E i \in 1..Len(s) : WithReferencesEnd(s, i) = Len(s) + 1
    THEN CHOOSE i \in 1..Len(s) : WithReferencesEnd(s, i) = Len(s) + 1
    ELSE 0

\* The category and the predicates of a descriptor.
Selection(q) ==
    IF "where" \in DOMAIN q THEN [nodeType |-> q.nodeType, where |-> q.where]
    ELSE [nodeType |-> q.nodeType]

\* C7: parse sets withReferences if and only if the normalized query ends with
\* the WITH REFERENCES clause, and the category and the predicates are those of
\* the query without that trailing clause.
C7_WithReferencesIsTrailingClause ==
    (op = "parse" /\ ~Threw(output)) =>
        LET normalized == Normalized(input)
            at == TrailingClause(normalized)
        IN  /\ output.withReferences = (at > 0)
            /\ at > 0 =>
                  /\ ~Threw(parse(SubSeq(normalized, 1, at - 1)))
                  /\ Selection(output) = Selection(parse(SubSeq(normalized, 1, at - 1)))

\* C8, as stated: the references of a result are defined if and only if the
\* descriptor's withReferences is true, for every category.
C8_ReferencesIffFlag ==
    Executed => (("references" \in DOMAIN output) = Descriptor.withReferences)

\* C8, amended: the references of a result are defined if and only if the
\* descriptor's withReferences is true and its category is not SourceFile.
C8_ReferencesIffFlagUnlessSourceFile ==
    Executed =>
        ("references" \in DOMAIN output)
            = (Descriptor.withReferences /\ Descriptor.nodeType # K_SourceFile)

\* C8's case: source files asked for with their references.
C8_Witness ==
    /\ Executed
    /\ Descriptor.withReferences
    /\ Descriptor.nodeType = K_SourceFile
    /\ output.nodes # <<>>
    /\ "references" \notin DOMAIN output

\* Node a stands before node b: in an earlier file, or earlier in the same file.
Before(a, b) == a[1] < b[1] \/ (a[1] = b[1] /\ a[2] < b[2])

\* 1 for a property of an interface, 0 for any other node.
MemberGroup(id) ==
    IF ~IsSourceFile(id) /\ NodeOf(project, id).kind = K_PropertySignature THEN 1 ELSE 0

\* Before, with the properties of a file's classes ahead of those of its
\* interfaces.
BeforeByGroup(a, b) ==
    \/ a[1] < b[1]
    \/ /\ a[1] = b[1]
       /\ \/ MemberGroup(a) < MemberGroup(b)
          \/ MemberGroup(a) = MemberGroup(b) /\ a[2] < b[2]

\* C9, as stated: for every category the match list is in file order, and
\* within a file in declaration order.
C9_DiscoveryOrder ==
    Executed =>
        \A i, j \in 1..Len(output.nodes) : i < j => Before(output.nodes[i], output.nodes[j])

\* C9, amended: the match list is in file order, and within a file in
\* declaration order, except for the category PropertyDeclaration, where within
\* a file the properties of the classes precede the properties of the
\* interfaces, each group in declaration order.
C9_DiscoveryOrderByGroup ==
    Executed =>
        \A i, j \in 1..Len(output.nodes) : i < j =>
            IF Descriptor.nodeType = K_Property
            THEN BeforeByGroup(output.nodes[i], output.nodes[j])
            ELSE Before(output.nodes[i], output.nodes[j])

\* C9's case: a property of a class listed ahead of a property of an interface
\* that is declared earlier in the same file.
C9_Witness ==
    /\ Executed
    /\ Descriptor.nodeType = K_Property
    /\ \E i, j \in 1..Len(output.nodes) :
          /\ i < j
          /\ Before(output.nodes[j], output.nodes[i])
          /\ MemberGroup(output.nodes[i]) = 0
          /\ MemberGroup(output.nodes[j]) = 1

\* The result of the selector's executor, before the limit is applied.
Untruncated == execute(project, NoOptions, parse(input))

Min(a, b) == IF a < b THEN a ELSE b

\* C10: with maxResults N configured, query returns the first N nodes of the
\* untruncated match list, in order, never more than N, and the references as
\* computed for the untruncated list.
C10_TruncatesToMaxResults ==
    (op = "query" /\ ~Threw(output) /\ "maxResults" \in DOMAIN options) =>
        /\ output.nodes
              = SubSeq(Untruncated.nodes, 1, Min(options.maxResults, Len(Untruncated.nodes)))
        /\ Len(output.nodes) <= options.maxResults
        /\ ("references" \in DOMAIN output) = ("references" \in DOMAIN Untruncated)
        /\ "references" \in DOMAIN output => output.references = Untruncated.references

\* The query has a FROM <category> clause: the keyword FROM, white space and a
\* category word.
HasFromClause(q) == \E i \in 1..Len(q) : FromEnd(q, i) > 0

\* A parse or a validate step.
ParserStep == op \in {"parse", "validate"}

\* C11: for every query string without a FROM <category> clause parse throws the
\* error that reports the missing FROM clause, and validate returns valid =
\* false with a non-empty error message.
C11_MissingFromIsAnError ==
    (ParserStep /\ ~HasFromClause(Normalized(input))) =>
        /\ op = "parse" => Threw(output) /\ output.error = MissingFrom
        /\ op = "validate" =>
              ~output.valid /\ "error" \in DOMAIN output /\ output.error # <<>>

\* The query starts with the text prefix, and the word that ends prefix ends there.
StartsWithWord(q, prefix) ==
    /\ Len(q) >= Len(prefix)
    /\ SubSeq(q, 1, Len(prefix)) = prefix
    /\ Len(q) > Len(prefix) => ~IsWordChar(q[Len(prefix) + 1])

\* The category words of the query strings.
CategoryWords == {c \in Categories : \A i \in 1..Len(c) : IsWordChar(c[i])}

SegmentsOf(queryString) ==
    LET q == WithoutReferences(Normalized(queryString))
        at == FirstMatch([k \in 1..Len(q) |-> WhereEnd(q, k)])
        parts == SplitAnd(SubSeq(q, SpacesEnd(q, at + 5), Len(q)))
    IN  IF at = 0 \/ ~HasFromClause(q) THEN <<>>
        ELSE [k \in 1..Len(parts) |-> Trim(parts[k])]

\* The segment has one of the three condition shapes.
Classified(segment) == parseCondition(segment) # NoCondition

\* The query whose WHERE clause holds the given segments.
QueryWhere(segments) == <<"S","E","L","E","C","T"," ","*"," ","F","R","O","M"," ","X"," ","W","H","E","R","E"," ">> \o Join(segments, <<" ","A","N","D"," ">>)

\* C14: a WHERE segment with none of the three condition shapes is dropped
\* without error: parse succeeds and the predicates of the descriptor are those
\* of the remaining segments, in their order.
C14_UnclassifiedSegmentDropped ==
    op = "parse" =>
        LET segments == SegmentsOf(input)
            remaining == SelectSeq(segments, Classified)
        IN  Len(remaining) < Len(segments) =>
                /\ ~Threw(output)
                /\ "where" \in DOMAIN output
                /\ Len(output.where) = Len(remaining)
                /\ \A k \in 1..Len(remaining) : output.where[k] = parseCondition(remaining[k])
                /\ remaining # <<>> => output.where = parse(QueryWhere(remaining)).where

\* C14's case: an unclassifiable segment stands between two conditions.
C14_Witness ==
    /\ op = "parse"
    /\ ~Threw(output)
    /\ "where" \in DOMAIN output
    /\ Len(output.where) = 2
    /\ LET segments == SegmentsOf(input)
       IN  /\ Len(segments) = 3
           /\ Classified(segments[1])
           /\ ~Classified(segments[2])
           /\ Classified(segments[3])

HasUnclassifiedSegment(queryString) ==
    LET segments == SegmentsOf(queryString)
    IN  \E k \in 1..Len(segments) : ~Classified(segments[k])

\* C15, as stated: when a segment of the WHERE clause has none of the three
\* condition shapes, parse throws and validate reports valid = false.
C15_UnclassifiedSegmentIsMalformed ==
    (ParserStep /\ HasUnclassifiedSegment(input)) =>
        /\ op = "parse" => Threw(output)
        /\ op = "validate" => ~output.valid

\* C15, amended: a segment of the WHERE clause that has none of the three
\* condition shapes is no error: parse returns a descriptor and validate
\* reports valid = true without an error message.
C15_UnclassifiedSegmentIsNoError ==
    (ParserStep /\ HasUnclassifiedSegment(input)) =>
        /\ op = "parse" => ~Threw(output) /\ "nodeType" \in DOMAIN output
        /\ op = "validate" => output.valid /\ "error" \notin DOMAIN output

\* validate has answered valid = true for a query whose WHERE clause is one
\* segment that is no condition.
C15_Witness ==
    /\ op = "validate"
    /\ LET segments == SegmentsOf(input)
       IN  Len(segments) = 1 /\ ~Classified(segments[1])
    /\ output.valid

\* C16: validate(q).valid is true exactly when parse(q) does not throw; when
\* parse throws, validate returns valid = false with the thrown message as
\* its error; validate itself returns a result and never throws.
C16_ValidIffParseSucceeds ==
    op = "validate" =>
        LET parsed == parse(input)
        IN  /\ "valid" \in DOMAIN output
            /\ output.valid <=> ~Threw(parsed)
            /\ Threw(parsed) =>
                   /\ ~output.valid
                   /\ "error" \in DOMAIN output
                   /\ output.error = parsed.error
            /\ ~Threw(parsed) => DOMAIN output = {"valid"}

\* validate has answered valid = false, with the message parse throws, for a
\* query on which parse throws.
C16_Witness ==
    /\ op = "validate"
    /\ Threw(parse(input))
    /\ ~output.valid
    /\ output.error = MissingFrom

\* The attributes of a source file itself: its path, base name, extension,
\* kind and text.  A file has no name and no modifier.
FileAttributes(file) ==
    (P_path :> file.path) @@ (P_baseName :> file.baseName)
        @@ (P_extension :> file.extension) @@ (P_kind :> K_SourceFile)
        @@ (P_text :> file.text)

\* The condition read on the attributes of a source file.
FileSatisfies(file, condition) ==
    LET attributes == FileAttributes(file)
    IN  /\ condition.property \in DOMAIN attributes
        /\ LET value == attributes[condition.property]
           IN  CASE condition.operator = EQUALS -> value = condition.value
                 [] condition.operator = NOT_EQUALS -> value # condition.value
                 [] condition.operator = LIKE -> matchesPattern(value, condition.value)
                 [] condition.operator = NOT_LIKE -> ~matchesPattern(value, condition.value)
                 [] condition.operator = IN_OP -> value \in Range(condition.value)
                 [] condition.operator = NOT_IN -> value \notin Range(condition.value)

\* The conditions of a descriptor; none when it has no where.
ConditionsOf(q) == IF "where" \in DOMAIN q THEN q.where ELSE <<>>

\* The source files in scope of the executor that ran the step.
InScope == filterSourceFiles(project, options, getSourceFiles(project))

\* C17: for the category SourceFile execute returns exactly the source files
\* in scope that satisfy every condition read on the file's own attributes, in
\* the order of the project's files; all files in scope when there is no
\* condition; and never a declaration.
C17_SourceFileCategory ==
    (op = "execute" /\ input.nodeType = K_SourceFile) =>
        LET inScope == InScope
            conditions == ConditionsOf(input)
        IN  /\ output.nodes =
                   SelectSeq(inScope, LAMBDA sf :
                       \A k \in 1..Len(conditions) :
                           FileSatisfies(FileOf(project, sf), conditions[k]))
            /\ \A k \in 1..Len(output.nodes) : IsSourceFile(output.nodes[k])
            /\ \A j, k \in 1..Len(output.nodes) :
                   j < k => output.nodes[j][1] < output.nodes[k][1]
            /\ conditions = <<>> => output.nodes = inScope

\* A SourceFile query with a condition on the path and one on the extension
\* has returned some of the files in scope and left out others.
C17_Witness ==
    /\ op = "execute"
    /\ input.nodeType = K_SourceFile
    /\ Len(ConditionsOf(input)) = 2
    /\ {input.where[1].property, input.where[2].property} = {P_path, P_extension}
    /\ output.nodes # <<>>
    /\ Len(output.nodes) < Len(InScope)
    /\ \E f \in 1..Len(project) : project[f].nodes # <<>>

\* A file-pattern filter is configured: the option is there and is not the
\* empty string, which the executor reads as no filter.
FilterConfigured ==
    /\ "filePattern" \in DOMAIN options
    /\ options.filePattern # [value |-> <<>>, isArray |-> FALSE]

\* The configured patterns: the array, or the one pattern.
ConfiguredPatterns ==
    IF options.filePattern.isArray THEN options.filePattern.value
    ELSE <<options.filePattern.value>>

\* The files whose path, written with forward slashes, matches at least one
\* configured pattern; every file when no filter is configured.
FilesInScope ==
    IF FilterConfigured
    THEN LET patterns == ConfiguredPatterns
         IN  {f \in 1..Len(project) :
                 \E k \in 1..Len(patterns) :
                     minimatch(ReplaceChar(project[f].path, "\\", <<"/">>), patterns[k])}
    ELSE 1..Len(project)

\* C18: every node execute returns, whatever the category, lies in a file whose
\* path matches at least one configured pattern, and these files are exactly
\* the files in scope: a SourceFile query without conditions returns them
\* all, a query for * without conditions returns every node of each of them.
\* Without a configured filter all source files are in scope.
C18_FilePatternScope ==
    op = "execute" =>
        LET inScope == FilesInScope
            files == {output.nodes[k][1] : k \in 1..Len(output.nodes)}
        IN  /\ files \subseteq inScope
            /\ "references" \in DOMAIN output =>
                   \A k \in 1..Len(output.references) :
                       output.references[k].node[1] \in inScope
            /\ (input.nodeType = K_SourceFile /\ "where" \notin DOMAIN input) =>
                   files = inScope
            /\ (input.nodeType = K_Star /\ "where" \notin DOMAIN input) =>
                   /\ files = {f \in inScope : project[f].nodes # <<>>}
                   /\ \A f \in inScope : \A i \in DOMAIN project[f].nodes :
                          \E k \in 1..Len(output.nodes) : output.nodes[k] = <<f, i>>
            /\ ~FilterConfigured => inScope = 1..Len(project)

\* An executor with two patterns has answered a query for * with the nodes of
\* the files that match one of the patterns, while a file with nodes matches
\* neither.
C18_Witness ==
    /\ op = "execute"
    /\ FilterConfigured
    /\ Len(ConfiguredPatterns) = 2
    /\ input.nodeType = K_Star
    /\ output.nodes # <<>>
    /\ \E f \in 1..Len(project) : f \notin FilesInScope /\ project[f].nodes # <<>>
    /\ \E f, g \in FilesInScope :
           /\ f # g
           /\ ~minimatch(project[f].path, ConfiguredPatterns[1])
           /\ ~minimatch(project[g].path, ConfiguredPatterns[2])

\* The node supports reference resolution: it has a findReferences method.
SupportsReferences(id) == ~IsSourceFile(id) /\ NodeOf(project, id).refs # Null

\* The number of occurrences the collaborator reports for the node, over all
\* the symbols it reports.
RECURSIVE OccurrenceCount(_, _)
OccurrenceCount(groups, n) ==
    IF n = 0 THEN 0 ELSE OccurrenceCount(groups, n - 1) + Len(groups[n])

\* C19: every entry of the references map has a non-empty list; a matched
\* node for which reference resolution reports no occurrence, or which does
\* not support it, has no key, and no error is raised; every other matched
\* node has one key, and the keys follow the order of the matches.
C19_NoEmptyReferenceLists ==
    (op \in {"execute", "query"} /\ "references" \in DOMAIN output) =>
        LET entries == output.references
        IN  /\ ~Threw(output)
            /\ \A k \in 1..Len(entries) : entries[k].references # <<>>
            /\ \A j, k \in 1..Len(entries) : j # k => entries[j].node # entries[k].node
            /\ op = "execute" =>
                   /\ \A n \in 1..Len(output.nodes) :
                          LET id == output.nodes[n]
                              reported ==
                                  /\ SupportsReferences(id)
                                  /\ OccurrenceCount(NodeOf(project, id).refs,
                                                     Len(NodeOf(project, id).refs)) > 0
                          IN  reported <=> \E k \in 1..Len(entries) : entries[k].node = id
                   /\ \A j, k \in 1..Len(entries) :
                          j < k => \E m, n \in 1..Len(output.nodes) :
                                       /\ m < n
                                       /\ output.nodes[m] = entries[j].node
                                       /\ output.nodes[n] = entries[k].node

\* A query with references has matched a node without findReferences, a node
\* with no referenced symbol, a node whose symbol has no reference and a node
\* with references; only the last has a key.
C19_Witness ==
    /\ op = "execute"
    /\ "references" \in DOMAIN output
    /\ output.references # <<>>
    /\ Len(output.references) < Len(output.nodes)
    /\ \E n \in 1..Len(output.nodes) : ~SupportsReferences(output.nodes[n])
    /\ \E n \in 1..Len(output.nodes) :
           /\ SupportsReferences(output.nodes[n])
           /\ NodeOf(project, output.nodes[n]).refs = <<>>
    /\ \E n \in 1..Len(output.nodes) :
           /\ SupportsReferences(output.nodes[n])
           /\ NodeOf(project, output.nodes[n]).refs = <<<<>>>>

\* The occurrences the collaborator reports for the node are the occurrences
\* list, one symbol after the other, each symbol's references in its order:
\* the list has as many members as the collaborator reports, and the i-th
\* reference of the n-th symbol stands after all those of the symbols before.
IsReported(groups, list) ==
    /\ Len(list) = OccurrenceCount(groups, Len(groups))
    /\ \A n \in 1..Len(groups) : \A i \in 1..Len(groups[n]) :
           list[OccurrenceCount(groups, n - 1) + i] = groups[n][i]

\* C20: the list mapped to a matched node is exactly the sequence of
\* occurrences findReferences reports for it, in its order, the occurrence
\* at the node's own site included, nothing removed and nothing merged.
C20_ReferencesAsReported ==
    (op \in {"execute", "query"} /\ "references" \in DOMAIN output) =>
        \A k \in 1..Len(output.references) :
            LET entry == output.references[k]
            IN  /\ SupportsReferences(entry.node)
                /\ IsReported(NodeOf(project, entry.node).refs, entry.references)

\* A class for which the collaborator reports two symbols, its own site under
\* both, is mapped to a list that holds its own site twice.
C20_Witness ==
    /\ op = "execute"
    /\ "references" \in DOMAIN output
    /\ \E k \in 1..Len(output.references) :
           LET entry == output.references[k]
           IN  /\ Len(NodeOf(project, entry.node).refs) = 2
               /\ Len(entry.references) = 3
               /\ entry.references[1] = entry.node
               /\ entry.references[2] = entry.node
               /\ entry.references[3] # entry.node

KeptSegments(queryString) == SelectSeq(SegmentsOf(queryString), Classified)

\* The items written between the parentheses of an IN segment, from its
\* opening to its closing parenthesis, separated at the commas, each without
\* the whitespace and the quote character around it.
WrittenItems(segment) ==
    LET opening == {i \in 1..Len(segment) : segment[i] = "("}
        closing == {i \in 1..Len(segment) : segment[i] = ")"}
        first == CHOOSE i \in opening : \A k \in opening : i <= k
        last == CHOOSE i \in closing : \A k \in closing : i >= k
        items == Split(SubSeq(segment, first + 1, last - 1), ",")
    IN  [k \in 1..Len(items) |-> StripQuotes(Trim(items[k]))]

\* C23: the operand of every IN / NOT IN predicate parse produces is a
\* non-empty list, whose members are in query order the items written between
\* the parentheses, without surrounding whitespace and quote characters.
C23_InOperandIsWrittenList ==
    (op = "parse" /\ ~Threw(output) /\ "where" \in DOMAIN output) =>
        LET kept == KeptSegments(input)
        IN  \A k \in 1..Len(output.where) :
                output.where[k].operator \in {IN_OP, NOT_IN} =>
                    /\ output.where[k].isArray
                    /\ output.where[k].value # <<>>
                    /\ output.where[k].value = WrittenItems(kept[k])

\* C24: a WHERE clause of n conditions joined by AND parses to n predicates in
\* the order of the query, the k-th with the attribute, the operator and the
\* operand the k-th condition is written with.
C24_ConditionsParseAsWritten ==
    op = "parse" =>
        \A conditions \in StringsUpTo(WrittenConditions, MaxWhere) \ {<<>>} :
            input = ConditionQuery(conditions) =>
                /\ ~Threw(output)
                /\ "where" \in DOMAIN output
                /\ Len(output.where) = Len(conditions)
                /\ \A k \in 1..Len(conditions) :
                       output.where[k] =
                           Condition(conditions[k].property, conditions[k].operator,
                                     conditions[k].value, FALSE)

\* The shape of a condition: IN, LIKE or equality.
Shape(operator) ==
    IF operator \in {IN_OP, NOT_IN} THEN "in"
    ELSE IF operator \in {LIKE, NOT_LIKE} THEN "like"
    ELSE "equality"

\* The first of the three shapes, in the order IN, LIKE, equality, whose
\* regular expression matches in the segment.
FirstShape(segment) ==
    IF \E i \in 1..Len(segment) : InMatchAt(segment, i) # NoMatch THEN "in"
    ELSE IF \E i \in 1..Len(segment) : LikeMatchAt(segment, i) # NoMatch THEN "like"
    ELSE "equality"

\* C25: each segment is classified by the first of the shapes IN, LIKE,
\* equality that matches it, and the shapes exclude one another: a condition
\* written as an equality or a LIKE condition is not classified as IN or
\* NOT IN, one written as an equality not as LIKE or NOT LIKE.
C25_ShapesExcludeOneAnother ==
    (op = "parse" /\ ~Threw(output) /\ "where" \in DOMAIN output) =>
        /\ LET kept == KeptSegments(input)
           IN  \A k \in 1..Len(output.where) :
                   Shape(output.where[k].operator) = FirstShape(kept[k])
        /\ \A conditions \in StringsUpTo(WrittenConditions, MaxWhere) \ {<<>>} :
               (input = ConditionQuery(conditions)
                   /\ Len(output.where) = Len(conditions)) =>
                       \A k \in 1..Len(conditions) :
                           Shape(output.where[k].operator) = Shape(conditions[k].operator)

\* C26: for a node that is no source file the attributes path, baseName and
\* extension are those of the source file that contains it, so a condition
\* on one of them holds of the node exactly when it holds of that file.
C26_FileAttributesOfContainingFile ==
    (/\ op = "matchesCondition"
     /\ ~IsSourceFile(input.node)
     /\ input.condition.property \in {P_path, P_baseName, P_extension}) =>
        LET file == <<input.node[1], 0>>
            property == input.condition.property
        IN  /\ getPropertyValue(project, input.node, property)
                   = FileAttributes(project[input.node[1]])[property]
            /\ getPropertyValue(project, input.node, property)
                   = getPropertyValue(project, file, property)
            /\ output = matchesCondition(project, file, input.condition)

\* A condition on the base name holds of a node inside a source file.
C26_Witness ==
    /\ op = "matchesCondition"
    /\ ~IsSourceFile(input.node)
    /\ NodeOf(project, input.node).parent # 0
    /\ input.condition.property = P_baseName
    /\ input.condition.operator \in {LIKE, IN_OP}
    /\ output = TRUE

Keywords ==
    {<<"S","E","L","E","C","T">>, <<"F","R","O","M">>, <<"W","H","E","R","E">>, <<"A","N","D">>, <<"N","O","T">>, <<"L","I","K","E">>, <<"I","N">>, <<"W","I","T","H">>,
     <<"R","E","F","E","R","E","N","C","E","S">>}

RECURSIVE QuotedPositions(_, _)
\* The positions of s from position from on that lie in a quoted string, the
\* quote characters included.
QuotedPositions(s, from) ==
    LET opening == {i \in from..Len(s) : s[i] \in QuoteChars}
    IN  IF opening = {} THEN {}
        ELSE LET o == CHOOSE i \in opening : \A k \in opening : i <= k
                 closing == {i \in (o + 1)..Len(s) : s[i] = s[o]}
                 c == IF closing = {} THEN Len(s)
                      ELSE CHOOSE i \in closing : \A k \in closing : i <= k
             IN  (o..c) \cup QuotedPositions(s, c + 1)

\* The word of s that position i lies in; nonWord holds the positions of s
\* that are no word characters.
WordAround(s, nonWord, i) ==
    LET before == {k \in nonWord : k < i}
        after == {k \in nonWord : k > i}
        first == IF before = {} THEN 1
                 ELSE (CHOOSE a \in before : \A k \in before : k <= a) + 1
        last == IF after = {} THEN Len(s)
                ELSE (CHOOSE b \in after : \A k \in after : k >= b) - 1
    IN  SubSeq(s, first, last)

\* The letter in the other case.
OtherCase(c) ==
    IF \E i \in 1..Len(UpperChars) : UpperChars[i] = c
    THEN LowerChars[CHOOSE i \in 1..Len(UpperChars) : UpperChars[i] = c]
    ELSE ToUpper(c)

\* The query with every letter of its keywords, outside quoted strings, in
\* the other case.
OtherKeywordCase(s) ==
    LET quoted == QuotedPositions(s, 1)
        nonWord == {k \in 1..Len(s) : ~IsWordChar(s[k])}
    IN  [i \in 1..Len(s) |->
            IF /\ i \notin quoted
               /\ i \notin nonWord
               /\ UpperString(WordAround(s, nonWord, i)) \in Keywords
            THEN OtherCase(s[i])
            ELSE s[i]]

\* The query with every run of whitespace one character longer, and with
\* whitespace before and after it.
LongerSpaces(s) ==
    LET keep == SelectSeq([k \in 1..(2 * Len(s)) |-> k],
                          LAMBDA k : k % 2 = 1 \/ IsSpace(s[k \div 2]))
    IN  <<"\n", " ">>
            \o [j \in 1..Len(keep) |->
                   IF keep[j] % 2 = 1 THEN s[(keep[j] + 1) \div 2] ELSE "\t"]
            \o <<" ", " ">>

\* C27: parse gives the same descriptor (or throws the same error) for the
\* query written with its keywords in the other letter case, with longer runs
\* of whitespace and whitespace around it, and with both.
C27_SpellingDoesNotMatter ==
    op = "parse" =>
        LET other == OtherKeywordCase(input)
        IN  /\ parse(other) = output
            /\ parse(LongerSpaces(input)) = output
            /\ parse(LongerSpaces(other)) = output

\* parse has returned a descriptor with two predicates and the references
\* flag for a query with the keywords SELECT, FROM, WHERE, AND, NOT, IN and
\* WITH REFERENCES; written in the other case and with other whitespace, the
\* query is another string.
C27_Witness ==
    /\ op = "parse"
    /\ ~Threw(output)
    /\ output.withReferences
    /\ "where" \in DOMAIN output
    /\ Len(output.where) = 2
    /\ output.where[2].operator = NOT_IN
    /\ LET other == OtherKeywordCase(input)
       IN  /\ Len(other) = Len(input)
           /\ Cardinality({i \in 1..Len(input) : other[i] # input[i]}) >= 30
    /\ Len(LongerSpaces(input)) > Len(input) + 10

\* C28: a selector constructed with a file-pattern filter answers a query as
\* an executor constructed with the same options answers the parsed query:
\* the same nodes, from the files the filter leaves in scope, and the same
\* references.
C28_SelectorPassesFilePattern ==
    (op = "query" /\ "filePattern" \in DOMAIN options /\ ~Threw(output)) =>
        LET direct == execute(project, options, parse(input))
        IN  /\ output.nodes = Limited(options, direct.nodes)
            /\ \A k \in 1..Len(output.nodes) : output.nodes[k][1] \in FilesInScope
            /\ "references" \in DOMAIN output <=> "references" \in DOMAIN direct
            /\ "references" \in DOMAIN output => output.references = direct.references

WithKindCondition(q) ==
    LET kind == Condition(P_kind, EQUALS, q.nodeType, FALSE)
    IN  [nodeType |-> q.nodeType,
         where |-> (IF "where" \in DOMAIN q THEN q.where ELSE <<>>) \o <<kind>>,
         withReferences |-> q.withReferences]

\* C30: every node execute returns for a category other than * has that
\* category as its kind name, and the query with kind = 'C' added gives the
\* same nodes.
C30_ReturnedNodesHaveTheCategoryKind ==
    (op = "execute" /\ ~Threw(output) /\ input.nodeType # K_Star) =>
        /\ \A k \in 1..Len(output.nodes) :
              getKindName(project, output.nodes[k]) = input.nodeType
        /\ execute(project, options, WithKindCondition(input)).nodes = output.nodes

\* C30, as the code has it: every node execute returns for a category other
\* than * has that category as its kind name, except that PropertyDeclaration
\* also returns the PropertySignature nodes of interfaces; for every category
\* but * and PropertyDeclaration the query with kind = 'C' added gives the
\* same nodes.
C30_CategoryKindButInterfaceProperties ==
    (op = "execute" /\ ~Threw(output) /\ input.nodeType # K_Star) =>
        /\ \A k \in 1..Len(output.nodes) :
              \/ getKindName(project, output.nodes[k]) = input.nodeType
              \/ /\ input.nodeType = K_Property
                 /\ getKindName(project, output.nodes[k]) = K_PropertySignature
        /\ input.nodeType # K_Property =>
              execute(project, options, WithKindCondition(input)).nodes = output.nodes

\* A query FROM PropertyDeclaration has returned a class property and an
\* interface property.
C30_Witness ==
    /\ op = "execute"
    /\ input.nodeType = K_Property
    /\ \E k \in 1..Len(output.nodes) :
          getKindName(project, output.nodes[k]) = K_Property
    /\ \E k \in 1..Len(output.nodes) :
          getKindName(project, output.nodes[k]) = K_PropertySignature

=========================================================================
